---- MODULE Spec2Model ----
(***************************************************************************)
(* Model of the antikythera combat integrator: the Transition model, the   *)
(* combat State, the hash-deduplicating StateTree, CombatContext /          *)
(* Integrator::run, and the GUI worker loop that drives the same combats.   *)
(***************************************************************************)
EXTENDS Integers, Sequences, FiniteSets, TLC

(***************************************************************************)
(* Bounds of the model.                                                    *)
(***************************************************************************)
\* stand-in for u64::MAX, the value at which NonZeroU64 / u64 counters saturate
HitsMax == 3
\* cap on the turns of one combat: AdvanceInitiative is not explored beyond it
MaxTurn == 2
\* number of highest die faces sampled besides the lowest face
FaceSamples == 1
\* largest min_combats handed to Integrator::new
MaxMinCombats == 2
\* cap on the failed combats after which the GUI worker starts no further combat
MaxErrors == 2
\* cap on the direct calls of CombatContext::transition by one caller
MaxCalls == 2
\* largest number of actors in a state handed directly to Transition::apply
MaxUnitActors == 2

(***************************************************************************)
(* Build profile                                                           *)
(***************************************************************************)
\* are integer-overflow checks compiled in (Cargo's overflow-checks, which
\* follows debug-assertions in the dev and release profiles)
VARIABLE overflow_checks

(***************************************************************************)
(* Option<T>                                                               *)
(***************************************************************************)
None == <<>>
Some(x) == <<x>>
IsSome(o) == o # <<>>
Unwrap(o) == o[1]
UnwrapOr(o, d) == IF o = <<>> THEN d ELSE o[1]

Min(a, b) == IF a <= b THEN a ELSE b
Max(a, b) == IF a >= b THEN a ELSE b

\* u64::saturating_add / NonZeroU64::saturating_add
saturating_add(x, n) == Min(x + n, HitsMax)

(***************************************************************************)
(* Transition (simulation/transition.rs).  One record shape for every      *)
(* variant; fields a variant does not carry hold a fixed filler.           *)
(***************************************************************************)
Root == [type |-> "Root", actor |-> 0, amount |-> 0, slot |-> "-", stat |-> "-"]
BeginCombat == [type |-> "BeginCombat", actor |-> 0, amount |-> 0, slot |-> "-", stat |-> "-"]
EndCombat == [type |-> "EndCombat", actor |-> 0, amount |-> 0, slot |-> "-", stat |-> "-"]
AdvanceInitiative == [type |-> "AdvanceInitiative", actor |-> 0, amount |-> 0, slot |-> "-", stat |-> "-"]
InitiativeRoll(actor, roll) == [type |-> "InitiativeRoll", actor |-> actor, amount |-> roll, slot |-> "-", stat |-> "-"]
BeginTurn(actor) == [type |-> "BeginTurn", actor |-> actor, amount |-> 0, slot |-> "-", stat |-> "-"]
EndTurn(actor) == [type |-> "EndTurn", actor |-> actor, amount |-> 0, slot |-> "-", stat |-> "-"]
HealthModification(target, delta) == [type |-> "HealthModification", actor |-> target, amount |-> delta, slot |-> "-", stat |-> "-"]
StatModification(target, stat, delta) == [type |-> "StatModification", actor |-> target, amount |-> delta, slot |-> "-", stat |-> stat]
ActionEconomyUsed(target, action_type) == [type |-> "ActionEconomyUsed", actor |-> target, amount |-> 0, slot |-> action_type, stat |-> "-"]

(***************************************************************************)
(* Actor predicates (rules/actor.rs, rules/death.rs)                       *)
(***************************************************************************)
DeathSaves_is_dead(death_failures) == death_failures >= 3
is_alive(actor) == actor.health > 0
is_dead(actor) == actor.health <= -actor.max_health \/ DeathSaves_is_dead(actor.death_failures)
is_unconscious(actor) == actor.health <= 0 /\ ~is_dead(actor)

\* A u32 stat is held as the i32 with the same bits (the value of `stat as i32`):
\* 0 .. 2^31 - 1 stand for themselves, a negative x stands for 2^32 + x.
\* i32 division truncates toward zero
truncating_div(a, b) == IF a >= 0 THEN a \div b ELSE -((-a) \div b)

\* Stats::modifier: self.get(stat) as i32 / 2 - 5
modifier(value) == truncating_div(value, 2) - 5

\* `*stat += delta as u32` carries out of 32 bits
add_u32_overflows(s, delta) ==
    \/ s < 0 /\ delta < 0
    \/ (s < 0) # (delta < 0) /\ s + delta >= 0

\* ActionEconomy (rules/actions.rs)
can_take_action(actor, action_type) ==
    IF action_type = "Action" THEN ~actor.action_used ELSE ~actor.bonus_action_used

(***************************************************************************)
(* State (simulation/state.rs)                                             *)
(***************************************************************************)
ActorIds(state) == DOMAIN state.actors

get_actor(state, actor_id) ==
    IF actor_id \in DOMAIN state.actors THEN Some(state.actors[actor_id]) ELSE None

allies_of(state, actor_id) ==
    {a \in ActorIds(state) : state.actors[a].group = state.actors[actor_id].group /\ a # actor_id}

enemies_of(state, actor_id) ==
    IF actor_id \in ActorIds(state)
    THEN (ActorIds(state) \ allies_of(state, actor_id)) \ {actor_id}
    ELSE ActorIds(state) \ {actor_id}

\* State::is_combat_over: counts the distinct groups of all actors of the map
is_combat_over(state) ==
    LET seen_groups == {state.actors[a].group : a \in ActorIds(state)}
        remaining_groups == Cardinality(seen_groups)
    IN  remaining_groups <= 1

(***************************************************************************)
(* Transition::apply (simulation/transition.rs).  The result carries the    *)
(* outcome ("Ok", "Err" for an anyhow error, "Panic") and the state the     *)
(* call leaves behind.                                                      *)
(***************************************************************************)
\* the (id, initiative) pairs collected from the BTreeMap: ascending actor id
RECURSIVE Collect(_)
Collect(ids) ==
    IF ids = {} THEN <<>>
    ELSE LET least == CHOOSE a \in ids : \A b \in ids : a <= b
         IN  <<least>> \o Collect(ids \ {least})

\* one step of the stable sort: x goes behind every element that the
\* comparator |a, b| b.1.cmp(&a.1) does not order after it
InsertDescending(sorted, x, actors) ==
    LET key(a) == UnwrapOr(actors[a].initiative, 0)
        ahead == {i \in DOMAIN sorted : key(sorted[i]) >= key(x)}
        k == Cardinality(ahead)
    IN  SubSeq(sorted, 1, k) \o <<x>> \o SubSeq(sorted, k + 1, Len(sorted))

RECURSIVE SortPrefix(_, _, _)
SortPrefix(pairs, n, actors) ==
    IF n = 0 THEN <<>>
    ELSE InsertDescending(SortPrefix(pairs, n - 1, actors), pairs[n], actors)

\* a sort followed by reverse(), as in the older copy of apply
SortDescending_reversed(ids, actors) ==
    LET sorted == SortPrefix(Collect(ids), Cardinality(ids), actors)
    IN  [i \in DOMAIN sorted |-> sorted[Len(sorted) + 1 - i]]

\* Vec::sort_by(|a, b| b.1.cmp(&a.1)) over the (id, initiative) pairs collected in
\* BTreeMap key order: a stable sort, so equal values keep ascending id order.
SortDescending(ids, actors) ==
    SortPrefix(Collect(ids), Cardinality(ids), actors)

\* ActionEconomy::reset
reset(actor) == [actor EXCEPT !.action_used = FALSE, !.bonus_action_used = FALSE]

ApplyOk(state) == [outcome |-> "Ok", state |-> state]

\* a BeginTurn arm that leaves the action economy of the actor as it is
apply_BeginTurn_keeping_flags(t, state) ==
    ApplyOk(state)

apply_BeginTurn(t, state) ==
    IF t.actor \in ActorIds(state)
    THEN ApplyOk([state EXCEPT !.actors[t.actor] = reset(@)])
    ELSE ApplyOk(state)

\* an EndCombat arm that leaves the recorded rolls on the actors
apply_EndCombat_keeping_rolls(t, state) ==
    ApplyOk([state EXCEPT !.current_turn_index = None,
                          !.turn = 0,
                          !.initiative_order = <<>>])

\* the EndCombat arm
apply_EndCombat(t, state) ==
    ApplyOk([state EXCEPT !.current_turn_index = None,
                          !.turn = 0,
                          !.initiative_order = <<>>,
                          !.actors = [a \in DOMAIN @ |-> [@[a] EXCEPT !.initiative = None]]])

\* an AdvanceInitiative arm that counts a turn on every step
apply_AdvanceInitiative_counting(t, state) ==
    IF IsSome(state.current_turn_index)
    THEN IF Len(state.initiative_order) = 0
         THEN [outcome |-> "Panic", state |-> state]
         ELSE LET next_index == (Unwrap(state.current_turn_index) + 1) % Len(state.initiative_order)
              IN  ApplyOk([state EXCEPT !.turn = @ + 1,
                                        !.current_turn_index = Some(next_index)])
    ELSE ApplyOk([state EXCEPT !.current_turn_index = Some(0)])

\* the AdvanceInitiative arm
apply_AdvanceInitiative(t, state) ==
    IF IsSome(state.current_turn_index)
    THEN IF Len(state.initiative_order) = 0
         THEN [outcome |-> "Panic", state |-> state]   \* remainder by zero
         ELSE LET next_index == (Unwrap(state.current_turn_index) + 1) % Len(state.initiative_order)
              IN  ApplyOk([state EXCEPT !.turn = IF next_index = 0 THEN @ + 1 ELSE @,
                                        !.current_turn_index = Some(next_index)])
    ELSE ApplyOk([state EXCEPT !.current_turn_index = Some(0)])

\* the StatModification arm: u32 += delta as u32, which panics on overflow when
\* overflow checks are compiled in and wraps otherwise
apply_StatModification(t, state) ==
    IF t.actor \in ActorIds(state)
    THEN IF overflow_checks /\ add_u32_overflows(state.actors[t.actor][t.stat], t.amount)
         THEN [outcome |-> "Panic", state |-> state]
         ELSE ApplyOk([state EXCEPT !.actors[t.actor][t.stat] = @ + t.amount])
    ELSE ApplyOk(state)

apply(t, state) ==
    CASE t.type = "Root" -> ApplyOk(state)
      [] t.type = "BeginCombat" -> ApplyOk([state EXCEPT !.current_turn_index = Some(0)])
      [] t.type = "EndCombat" -> apply_EndCombat(t, state)
      [] t.type = "InitiativeRoll" ->
            LET actors1 == IF t.actor \in ActorIds(state)
                           THEN [state.actors EXCEPT ![t.actor].initiative = Some(t.amount)]
                           ELSE state.actors
            IN  ApplyOk([state EXCEPT !.actors = actors1,
                                      !.initiative_order = SortDescending(DOMAIN actors1, actors1)])
      [] t.type = "BeginTurn" -> apply_BeginTurn(t, state)
      [] t.type = "EndTurn" -> ApplyOk(state)
      [] t.type = "AdvanceInitiative" -> apply_AdvanceInitiative(t, state)
      [] t.type = "HealthModification" ->
            IF t.actor \in ActorIds(state)
            THEN ApplyOk([state EXCEPT !.actors[t.actor].health = @ + t.amount])
            ELSE ApplyOk(state)
      [] t.type = "StatModification" -> apply_StatModification(t, state)
      [] t.type = "ActionEconomyUsed" ->
            IF t.actor \in ActorIds(state)
            THEN IF ~can_take_action(state.actors[t.actor], t.slot)
                 THEN [outcome |-> "Err", state |-> state]    \* use_action bails before the edit
                 ELSE ApplyOk(IF t.slot = "Action"
                              THEN [state EXCEPT !.actors[t.actor].action_used = TRUE]
                              ELSE [state EXCEPT !.actors[t.actor].bonus_action_used = TRUE])
            ELSE ApplyOk(state)

(***************************************************************************)
(* StateTree (simulation/state_tree.rs)                                    *)
(***************************************************************************)
\* StateHash::hash_state: the derived Hash feeds every field of State, in declaration
\* order, to the hasher; the 64-bit digest is modelled by the fed field sequence, so
\* two states get the same hash exactly when every hashed field agrees (FxHasher
\* collisions between different field sequences are outside the model).
\* next_actor_id and next_item_id never change after construction and are left out.
hash_state(state) ==
    <<state.turn, state.actors, state.items, state.initiative_order, state.current_turn_index>>

\* EdgeKey::new(source, to)
EdgeKey(from, to) == <<from, to>>

\* node indices are 0-based in the code; nodes[i + 1] holds the hits of node i
node_count(tree) == Len(tree.nodes)
edge_count(tree) == Cardinality(DOMAIN tree.edge_cache)
NodeIndices(tree) == 0 .. (Len(tree.nodes) - 1)

\* StateTree::neighbors(node): the adjacency list, empty when out of range
neighbors(tree, node) ==
    IF node + 1 \in DOMAIN tree.neighbors THEN tree.neighbors[node + 1] ELSE <<>>

\* StateTree::get_node_hits
get_node_hits(tree, index) ==
    IF index + 1 \in DOMAIN tree.nodes THEN Some(tree.nodes[index + 1]) ELSE None

\* StateTree::get_edge
get_edge(tree, from, to) ==
    IF EdgeKey(from, to) \in DOMAIN tree.edge_cache
    THEN Some(tree.edge_cache[EdgeKey(from, to)]) ELSE None

\* add_node that counts total_node_hits only when the node exists already
add_node_counting_revisits(tree, state_hash) ==
    IF state_hash \in DOMAIN tree.state_cache /\ tree.state_cache[state_hash] + 1 \in DOMAIN tree.nodes
    THEN LET existing_index == tree.state_cache[state_hash]
         IN  [tree |-> [tree EXCEPT !.nodes[existing_index + 1] = saturating_add(@, 1),
                                    !.total_node_hits = saturating_add(@, 1)],
              index |-> existing_index]
    ELSE LET node == Len(tree.nodes)
         IN  [tree |-> [tree EXCEPT !.nodes = Append(@, 1),
                                    !.state_cache = (state_hash :> node) @@ @],
              index |-> node]

\* add_node that forgets to enter a new node into state_cache
add_node_uncached(tree, state_hash) ==
    LET t1 == [tree EXCEPT !.total_node_hits = saturating_add(@, 1)]
    IN  IF state_hash \in DOMAIN t1.state_cache /\ t1.state_cache[state_hash] + 1 \in DOMAIN t1.nodes
        THEN LET existing_index == t1.state_cache[state_hash]
             IN  [tree |-> [t1 EXCEPT !.nodes[existing_index + 1] = saturating_add(@, 1)],
                  index |-> existing_index]
        ELSE [tree |-> [t1 EXCEPT !.nodes = Append(@, 1)], index |-> Len(t1.nodes)]

\* StateTree::add_node: result is the new tree and the returned index
add_node(tree, state_hash) ==
    LET t1 == [tree EXCEPT !.total_node_hits = saturating_add(@, 1)]
    IN  IF state_hash \in DOMAIN t1.state_cache /\ t1.state_cache[state_hash] + 1 \in DOMAIN t1.nodes
        THEN LET existing_index == t1.state_cache[state_hash]
             IN  [tree |-> [t1 EXCEPT !.nodes[existing_index + 1] = saturating_add(@, 1)],
                  index |-> existing_index]
        ELSE LET node == Len(t1.nodes)
             IN  [tree |-> [t1 EXCEPT !.nodes = Append(@, 1),
                                      !.state_cache = (state_hash :> node) @@ @],
                  index |-> node]

\* Vec::resize(n, Vec::new()) on the adjacency table
resize(nbrs, n) ==
    [i \in 1 .. n |-> IF i \in DOMAIN nbrs THEN nbrs[i] ELSE <<>>]

\* add_edge that pushes an adjacency entry on every call
add_edge_duplicating(tree, from, to, transition, debug_assertions) ==
    LET key == EdgeKey(from, to)
        nb == IF from + 1 \in DOMAIN tree.neighbors
              THEN tree.neighbors
              ELSE resize(tree.neighbors, from + 1)
        pushed == [nb EXCEPT ![from + 1] = Append(@, to)]
    IN  IF key \in DOMAIN tree.edge_cache
        THEN IF debug_assertions /\ tree.edge_cache[key].transition # transition
             THEN [tree |-> tree, panicked |-> TRUE]
             ELSE [tree |-> [tree EXCEPT !.edge_cache[key].hits = saturating_add(@, 1),
                                         !.total_edge_hits = saturating_add(@, 1),
                                         !.neighbors = pushed],
                   panicked |-> FALSE]
        ELSE [tree |-> [tree EXCEPT !.edge_cache = (key :> [transition |-> transition,
                                                            hits |-> 1]) @@ @,
                                    !.total_edge_hits = saturating_add(@, 1),
                                    !.neighbors = pushed],
              panicked |-> FALSE]

\* StateTree::add_edge.  debug_assertions is the build setting; the result
\* carries panicked = TRUE when debug_assert_eq! fires.
add_edge(tree, from, to, transition, debug_assertions) ==
    LET key == EdgeKey(from, to)
    IN  IF key \in DOMAIN tree.edge_cache
        THEN IF debug_assertions /\ tree.edge_cache[key].transition # transition
             THEN [tree |-> tree, panicked |-> TRUE]
             ELSE [tree |-> [tree EXCEPT !.edge_cache[key].hits = saturating_add(@, 1),
                                         !.total_edge_hits = saturating_add(@, 1)],
                   panicked |-> FALSE]
        ELSE LET edge == [transition |-> transition, hits |-> 1]
                 nb == IF from + 1 \in DOMAIN tree.neighbors
                       THEN tree.neighbors
                       ELSE resize(tree.neighbors, from + 1)
             IN  [tree |-> [tree EXCEPT !.edge_cache = (key :> edge) @@ @,
                                        !.total_edge_hits = saturating_add(@, 1),
                                        !.neighbors = [nb EXCEPT ![from + 1] = Append(@, to)]],
                  panicked |-> FALSE]

\* StateTree::new
StateTree_new(initial_state) ==
    LET empty == [initial_state |-> initial_state,
                  root |-> 0,
                  nodes |-> <<>>,
                  total_node_hits |-> 0,
                  total_edge_hits |-> 0,
                  state_cache |-> <<>>,
                  edge_cache |-> <<>>,
                  neighbors |-> <<>>]
        added == add_node(empty, hash_state(initial_state))
    IN  [added.tree EXCEPT !.root = added.index]

(***************************************************************************)
(* Dice engine (rules/dice.rs, statistics/roller.rs)                       *)
(***************************************************************************)
RollSettings_default ==
    [advantage |-> "Normal", minimum_die_value |-> None,
     maximum_die_value |-> None, reroll_dice_below |-> None]

RollPlan(num_dice, die_size, mod) ==
    [num_dice |-> num_dice, die_size |-> die_size, modifier |-> mod,
     settings |-> RollSettings_default]

\* Roller::roll(min, max) = rng.random_range(min..=max): the faces the model samples
\* are the lowest and the FaceSamples highest of the range.
Faces(min, max) == {f \in min .. max : f = min \/ f > max - FaceSamples}

RECURSIVE FaceSeqs(_, _)
FaceSeqs(n, F) ==
    IF n = 0 THEN {<<>>}
    ELSE {Append(s, f) : s \in FaceSeqs(n - 1, F), f \in F}

RECURSIVE SumSeq(_)
SumSeq(s) == IF s = <<>> THEN 0 ELSE s[1] + SumSeq(Tail(s))

\* a clamp that hands the value through
clamp_nothing(x, lo, hi) == x

\* u32::clamp(min, max), for min <= max
clamp(x, lo, hi) == IF x < lo THEN lo ELSE IF x > hi THEN hi ELSE x

\* a roll_normal that counts critical faces on dice of every size
roll_normal_result_any_die(plan, sampled) ==
    LET clamp_min == UnwrapOr(plan.settings.minimum_die_value, 1)
        clamp_max == UnwrapOr(plan.settings.maximum_die_value, plan.die_size)
        individual_rolls == [i \in DOMAIN sampled |-> clamp(sampled[i], clamp_min, clamp_max)]
        crit_success_count ==
            Cardinality({i \in DOMAIN individual_rolls : individual_rolls[i] = 20})
        crit_failure_count ==
            Cardinality({i \in DOMAIN individual_rolls : individual_rolls[i] = 1})
    IN  [total |-> SumSeq(individual_rolls) + plan.modifier,
         individual_rolls |-> individual_rolls,
         critical |-> IF crit_success_count > crit_failure_count THEN "Success"
                      ELSE IF crit_failure_count > crit_success_count THEN "Failure"
                      ELSE "None"]

\* the result of RollPlan::roll_normal for one sequence of sampled faces
roll_normal_result(plan, sampled) ==
    LET clamp_min == UnwrapOr(plan.settings.minimum_die_value, 1)
        clamp_max == UnwrapOr(plan.settings.maximum_die_value, plan.die_size)
        individual_rolls == [i \in DOMAIN sampled |-> clamp(sampled[i], clamp_min, clamp_max)]
        crit_success_count ==
            IF plan.die_size = 20
            THEN Cardinality({i \in DOMAIN individual_rolls : individual_rolls[i] = 20}) ELSE 0
        crit_failure_count ==
            IF plan.die_size = 20
            THEN Cardinality({i \in DOMAIN individual_rolls : individual_rolls[i] = 1}) ELSE 0
    IN  [total |-> SumSeq(individual_rolls) + plan.modifier,
         individual_rolls |-> individual_rolls,
         critical |-> IF crit_success_count > crit_failure_count THEN "Success"
                      ELSE IF crit_failure_count > crit_success_count THEN "Failure"
                      ELSE "None"]

\* RollPlan::roll_normal cannot sample: random_range on an empty range and
\* u32::clamp with min > max both panic, once a die is actually rolled
roll_normal_panics(plan) ==
    /\ plan.num_dice >= 1
    /\ \/ UnwrapOr(plan.settings.reroll_dice_below, 1) > plan.die_size
       \/ UnwrapOr(plan.settings.minimum_die_value, 1)
             > UnwrapOr(plan.settings.maximum_die_value, plan.die_size)

\* the older roll_normal builds Uniform::new_inclusive(low, die_size)? first,
\* which is an Err (propagated by ?) when the range is empty
Uniform_new_inclusive_fails(plan) ==
    UnwrapOr(plan.settings.reroll_dice_below, 1) > plan.die_size

\* RollPlan::roll_normal: every result the roll can produce
roll_normal(plan) ==
    LET low == UnwrapOr(plan.settings.reroll_dice_below, 1)
    IN  {roll_normal_result(plan, sampled) :
            sampled \in FaceSeqs(plan.num_dice, Faces(low, plan.die_size))}

is_critical_success(result) == result.critical = "Success"
is_critical_failure(result) == result.critical = "Failure"

\* a test that looks at the total only
meets_dc_by_total(result, dc) == result.total >= dc

\* RollResult::meets_dc
meets_dc(result, dc) ==
    CASE result.critical = "Success" -> TRUE
      [] result.critical = "Failure" -> FALSE
      [] OTHER -> result.total >= dc

\* an advantage that keeps the higher total whatever the critical flags are
roll_advantage_result_by_total(first_roll, second_roll) ==
    IF first_roll.total >= second_roll.total THEN first_roll ELSE second_roll

\* what roll_advantage returns for the two normal-mode sub-rolls (the second
\* one is only rolled when the first is no critical success)
roll_advantage_result(first_roll, second_roll) ==
    IF is_critical_success(first_roll) THEN first_roll
    ELSE IF is_critical_success(second_roll) THEN second_roll
    ELSE IF first_roll.total >= second_roll.total THEN first_roll ELSE second_roll

\* what roll_disadvantage returns for the two normal-mode sub-rolls
roll_disadvantage_result(first_roll, second_roll) ==
    IF is_critical_failure(first_roll) THEN first_roll
    ELSE IF is_critical_failure(second_roll) THEN second_roll
    ELSE IF first_roll.total <= second_roll.total THEN first_roll ELSE second_roll

\* RollPlan::roll_advantage
roll_advantage(plan) ==
    {roll_advantage_result(first_roll, second_roll) :
        first_roll \in roll_normal(plan), second_roll \in roll_normal(plan)}

\* RollPlan::roll_disadvantage
roll_disadvantage(plan) ==
    {roll_disadvantage_result(first_roll, second_roll) :
        first_roll \in roll_normal(plan), second_roll \in roll_normal(plan)}

\* RollPlan::roll
roll(plan) ==
    CASE plan.settings.advantage = "Normal" -> roll_normal(plan)
      [] plan.settings.advantage = "Advantage" -> roll_advantage(plan)
      [] plan.settings.advantage = "Disadvantage" -> roll_disadvantage(plan)

\* Roller::roll(&RollPlan) as the integrator calls it: the outcomes of a plan
\* that cannot be sampled are the Err of the Uniform-based engine and the
\* panic of the random_range-based engine.
Roller_roll_failures(plan) ==
    (IF Uniform_new_inclusive_fails(plan) THEN {"Err"} ELSE {}) \cup
    (IF roll_normal_panics(plan) THEN {"Panic"} ELSE {})

(***************************************************************************)
(* Roll plans of an actor (rules/actor.rs)                                 *)
(***************************************************************************)
proficiency_bonus(actor) ==
    CASE actor.level \in 1 .. 4 -> 2
      [] actor.level \in 5 .. 8 -> 3
      [] actor.level \in 9 .. 12 -> 4
      [] actor.level \in 13 .. 16 -> 5
      [] actor.level \in 17 .. 20 -> 6
      [] OTHER -> 2 + (actor.level - 1) \div 4

plan_initiative_roll(actor) == RollPlan(1, 20, modifier(actor.dexterity))
plan_unarmed_strike_roll(actor) == RollPlan(1, 20, modifier(actor.strength))
plan_unarmed_strike_damage(actor) == RollPlan(1, 4, modifier(actor.strength))
plan_unarmed_strike_crit_damage(actor) == RollPlan(2, 4, modifier(actor.strength))
plan_attack_roll(actor, weapon) ==
    RollPlan(1, 20, weapon.attack_bonus
                    + (IF actor.weapon_proficient THEN proficiency_bonus(actor) ELSE 0))

(***************************************************************************)
(* Policy::take_action (simulation/policy.rs).  The weighted samplers are   *)
(* inputs: every entry with a positive weight can be drawn.                 *)
(***************************************************************************)
\* State::possible_targets / State::possible_actions
possible_targets(state, actor_id) == enemies_of(state, actor_id)
possible_actions(state, actor_id) == {"Wait", "Attack", "UnarmedStrike"}

Wait(actor_id, usage) ==
    [actor |-> actor_id, kind |-> "Wait", target |-> 0, weapon_used |-> 0,
     action_economy_usage |-> usage]

\* the items of the actor's inventory that are weapons of the state; the first
\* one in the inventory map's iteration order is used
usable_weapons(state, actor) ==
    {i \in actor.inventory : i \in DOMAIN state.items /\ state.items[i].kind = "Weapon"}

take_action(action_economy_usage, actor_id, state) ==
    IF action_economy_usage # "Action" THEN {Wait(actor_id, action_economy_usage)}
    ELSE LET enemies == possible_targets(state, actor_id)
             actor == state.actors[actor_id]
             weapons == usable_weapons(state, actor)
             action_weights ==
                 {a \in actor.policy.action_weights :
                     /\ (a = "Attack" /\ weapons # {}) \/ a = "UnarmedStrike"
                     /\ a \in possible_actions(state, actor_id)}
         IN  IF enemies = {} \/ action_weights = {}
             THEN {Wait(actor_id, action_economy_usage)}
             ELSE {[actor |-> actor_id, kind |-> action_type, target |-> target,
                    weapon_used |-> IF action_type = "Attack" THEN w ELSE 0,
                    action_economy_usage |-> action_economy_usage] :
                       action_type \in action_weights, target \in enemies,
                       w \in IF weapons = {} THEN {0} ELSE weapons}

(***************************************************************************)
(* Initial states handed to Integrator::new / the GUI worker                *)
(***************************************************************************)
Actor(id, group, strength, action_weights, inventory) ==
    [id |-> id, group |-> group, level |-> 1, armor_class |-> 10,
     max_health |-> 1, health |-> 1,
     strength |-> strength, dexterity |-> 10, death_failures |-> 0,
     initiative |-> None, action_used |-> FALSE, bonus_action_used |-> FALSE,
     weapon_proficient |-> FALSE, inventory |-> inventory,
     policy |-> [action_weights |-> action_weights]]

\* State::new() followed by add_item / add_actor
State_new(actors, items) ==
    [turn |-> 0, actors |-> actors, items |-> items,
     initiative_order |-> <<>>, current_turn_index |-> None]

\* a weapon whose damage formula "1d0" parses but cannot be rolled
BrokenSword ==
    [kind |-> "Weapon", attack_bonus |-> 1, damage |-> RollPlan(1, 0, 0), critical_damage |-> None]

\* a single actor, nobody to fight
SoloState ==
    State_new((1 :> Actor(1, 0, 10, {"UnarmedStrike"}, {})), <<>>)

\* a hero who only attacks with the broken sword, against a passive goblin
DuelState ==
    State_new((1 :> Actor(1, 0, 10, {"Attack"}, {1})) @@
              (2 :> Actor(2, 1, 10, {}, {})), (1 :> BrokenSword))

\* a weak hero (strength 8, unarmed damage 1d4 - 1) against a passive goblin
BrawlState ==
    State_new((1 :> Actor(1, 0, 8, {"UnarmedStrike"}, {})) @@
              (2 :> Actor(2, 1, 10, {}, {})), <<>>)

\* a feeble hero (strength 4, unarmed damage 1d4 - 3) against a passive goblin
FeebleState ==
    State_new((1 :> Actor(1, 0, 4, {"UnarmedStrike"}, {})) @@
              (2 :> Actor(2, 1, 10, {}, {})), <<>>)

\* a state saved in the middle of a combat (initiative already rolled) and
\* loaded as the initial state
SnapshotState ==
    LET s == State_new((1 :> Actor(1, 0, 10, {}, {})), <<>>)
    IN  [s EXCEPT !.actors[1].initiative = Some(1),
                  !.initiative_order = <<1>>,
                  !.current_turn_index = Some(0)]

\* State::new() with nothing added
EmptyState == State_new(<<>>, <<>>)

InitialStates == {EmptyState, SoloState, DuelState, BrawlState, FeebleState, SnapshotState}

\* the inputs explored per driver: every initial state under Integrator::run;
\* under the GUI worker the one whose combats fail and the one whose combats
\* complete; under direct calls the one with the most self-loops
InitialStatesOf(d) ==
    CASE d = "run" -> InitialStates
      [] d = "gui" -> {DuelState, SnapshotState}
      [] d = "api" -> {SnapshotState}
      [] d = "unit" -> {EmptyState}

MinCombatsOf(d) ==
    CASE d = "run" -> 0 .. MaxMinCombats
      [] d = "gui" -> {0, MaxMinCombats}
      [] d = "api" -> {0}
      [] d = "unit" -> {0}

(***************************************************************************)
(* StateTree::visit_states (simulation/state_tree.rs)                      *)
(***************************************************************************)
\* The visitor closure is an input: it returns false exactly at the nodes in
\* stop.  A traversal is threaded as [visited, calls, panicked]; calls lists
\* the visitor invocations (node, state, hits) in order.
RECURSIVE visit_states_recursive(_, _, _, _, _, _)
RECURSIVE visit_neighbors(_, _, _, _, _, _, _)

\* a loop that descends into the first neighbor only
visit_neighbors_first(tree, externals_only, stop, node, state, i, acc) ==
    IF acc.panicked \/ i > 1 \/ i > Len(neighbors(tree, node)) THEN acc
    ELSE LET neighbor == neighbors(tree, node)[i]
             edge == get_edge(tree, node, neighbor)
             applied == apply(Unwrap(edge).transition, state)
         IN  IF ~IsSome(edge) \/ applied.outcome # "Ok" THEN acc
             ELSE visit_states_recursive(tree, externals_only, stop, neighbor,
                                         applied.state, acc)

\* the for loop over self.neighbors(node), from its i-th entry on
visit_neighbors(tree, externals_only, stop, node, state, i, acc) ==
    IF acc.panicked \/ i > Len(neighbors(tree, node)) THEN acc
    ELSE LET neighbor == neighbors(tree, node)[i]
             edge == get_edge(tree, node, neighbor)
             applied == apply(Unwrap(edge).transition, state)
             after ==
                 IF ~IsSome(edge) THEN acc
                 ELSE IF applied.outcome = "Err" THEN acc       \* log::error!; continue
                 ELSE IF applied.outcome = "Panic" THEN [acc EXCEPT !.panicked = TRUE]
                 ELSE visit_states_recursive(tree, externals_only, stop, neighbor,
                                             applied.state, acc)
         IN  visit_neighbors(tree, externals_only, stop, node, state, i + 1, after)

visit_states_recursive(tree, externals_only, stop, node, state, acc) ==
    IF node \in acc.visited THEN acc
    ELSE LET should_visit == IF externals_only THEN Len(neighbors(tree, node)) = 0 ELSE TRUE
             hits == UnwrapOr(get_node_hits(tree, node), 0)
             keep_going == IF should_visit THEN node \notin stop ELSE TRUE
             acc1 == [acc EXCEPT !.visited = @ \cup {node},
                                 !.calls = IF should_visit
                                           THEN Append(@, [node |-> node, state |-> state,
                                                           hits |-> hits])
                                           ELSE @]
         IN  IF ~keep_going THEN acc1
             ELSE visit_neighbors(tree, externals_only, stop, node, state, 1, acc1)

visit_states(tree, externals_only, stop) ==
    visit_states_recursive(tree, externals_only, stop, tree.root, tree.initial_state,
                           [visited |-> {}, calls |-> <<>>, panicked |-> FALSE])

(***************************************************************************)
(* Program state                                                           *)
(***************************************************************************)
VARIABLES
    driver,            \* who drives: Integrator::run, the GUI worker, direct calls of the tree API,
                       \* or direct calls of Transition::apply and RollPlan::roll
    debug_assertions,  \* build setting: are debug_assert! checks compiled in
    initial_state,     \* Integrator.initial_state
    min_combats,       \* Integrator.min_combats
    combats_run,       \* Integrator.combats_run
    state_tree,        \* the StateTree the combats are merged into
    state,             \* CombatContext.state
    current_node,      \* CombatContext.current_node
    pc,                \* position in run / run_combat / advance_turn / evaluate_action
    initiative_rolls,  \* run_combat: rolls not yet merged as InitiativeRoll
    current_actor_id,  \* advance_turn: the actor whose turn is running
    action_type,       \* advance_turn: the action-economy slot being handled
    pending,           \* evaluate_action: the HealthModification about to be merged
    combat_result,     \* what the last run_combat returned
    run_result,        \* what Integrator::run returned
    panicked,          \* the running thread panicked
    progress_tx,       \* GUI: completed-combat counts whose progress was sent
    last_reported,     \* GUI: completed-combat count of the last progress sent
    result_tx,         \* GUI: IntegrationResults sent on the result channel
    calls,             \* visit_states: the visitor invocations of the last traversal
    visit_args,        \* visit_states: the arguments of the last traversal
    recorded,          \* history: live state at the moment each node was first recorded
    node_calls,        \* history: per hash, the number of add_node calls (counted up to HitsMax + 1)
    edge_calls,        \* history: per (from, to), the number of add_edge calls that returned
    ended,             \* history: number of EndCombat transitions merged
    divergence,        \* history: add_edge was handed a transition differing from the stored one
    last_merged,       \* history: the transition merged last in the running combat
    trial_log,         \* history: the transitions merged by the running combat, in order
    apply_call,        \* the last direct call of Transition::apply: input and result
    roll_call,         \* the last direct call of RollPlan::roll: plan, sub-rolls and result
    trial_new,         \* history: nodes and edges first created by the running combat
    failed_trial,      \* history: nodes and edges first created by combats that returned an error
    trial_errors,      \* history: number of combats that returned an error
    query_call,        \* the last outcome-probability query: flag, condition, sums and result
    visited_by,        \* history: nodes the running combat visited; per node, the completed combats that visited it
    hook_log,          \* history: the calls the Integrator made on its hooks, in order
    rerun,             \* history: steps and roller values of this run; the run it repeats, if any
    tree_call,         \* the last serialization round trip of a state tree: the tree, its copy and a probe
    api_calls          \* history: number of direct calls of CombatContext::transition

vars == <<driver, debug_assertions, overflow_checks, apply_call, roll_call, initial_state, min_combats, combats_run, state_tree,
          state, current_node, pc, initiative_rolls, current_actor_id, action_type,
          pending, combat_result, run_result, panicked, progress_tx, last_reported,
          result_tx, calls, visit_args, recorded, node_calls, edge_calls, ended, divergence, last_merged, trial_log,
          trial_new, failed_trial, trial_errors, api_calls, query_call, visited_by, hook_log, rerun, tree_call>>

\* the StateTree struct literal of StateTree::new before the root is added
EmptyTree(s) ==
    [initial_state |-> s, root |-> 0, nodes |-> <<>>, total_node_hits |-> 0,
     total_edge_hits |-> 0, state_cache |-> <<>>, edge_cache |-> <<>>, neighbors |-> <<>>]

NoTrial == [nodes |-> {}, edges |-> {}]

\* no direct call of apply / roll has been made
NoCall == [op |-> "none"]

\* Integrator::new(min_combats, roller, initial_state)
InitCommon ==
    /\ debug_assertions \in BOOLEAN
    /\ combats_run = 0
    /\ state_tree = EmptyTree(initial_state)
    /\ state = initial_state
    /\ current_node = 0
    /\ pc = "new"
    /\ initiative_rolls = <<>>
    /\ current_actor_id = 0
    /\ action_type = "Action"
    /\ pending = Root
    /\ combat_result = "None"
    /\ run_result = "None"
    /\ panicked = FALSE
    /\ progress_tx = <<>>
    /\ last_reported = 0
    /\ result_tx = <<>>
    /\ calls = <<>>
    /\ visit_args = [externals_only |-> FALSE, stop |-> {}]
    /\ recorded = <<>>
    /\ node_calls = <<>>
    /\ edge_calls = <<>>
    /\ ended = 0
    /\ divergence = FALSE
    /\ last_merged = Root
    /\ trial_log = <<>>
    /\ apply_call = NoCall
    /\ roll_call = NoCall
    /\ overflow_checks = debug_assertions
    /\ trial_new = NoTrial
    /\ failed_trial = NoTrial
    /\ trial_errors = 0
    /\ api_calls = 0
    /\ tree_call = NoCall
    /\ rerun = [phase |-> "first", steps |-> 0, stream |-> <<>>, first |-> <<>>]
    /\ hook_log = <<>>
    /\ visited_by = [trial |-> {}, completed |-> <<>>]
    /\ query_call = NoCall

Init ==
    /\ driver \in {"run", "gui", "api", "unit"}
    /\ initial_state \in InitialStatesOf(driver)
    /\ min_combats \in MinCombatsOf(driver)
    /\ InitCommon

(***************************************************************************)
(* CombatContext::transition (simulation/integration.rs)                   *)
(***************************************************************************)
\* one call on the hooks of the Integrator: the callback and its actor argument
HookCall(name, actor) == [hook |-> name, actor |-> actor]

\* a match on the transition with the arms of the turn callbacks exchanged
transition_hooks_swapped(t) ==
    CASE t.type = "BeginCombat" -> <<HookCall("on_combat_start", 0)>>
      [] t.type = "BeginTurn" -> <<HookCall("on_turn_end", t.actor)>>
      [] t.type = "EndTurn" -> <<HookCall("on_turn_start", t.actor)>>
      [] t.type = "EndCombat" -> <<HookCall("on_combat_end", 0)>>
      [] OTHER -> <<>>

\* transition: the match on the transition after the merge, for every hook
transition_hooks(t) ==
    CASE t.type = "BeginCombat" -> <<HookCall("on_combat_start", 0)>>
      [] t.type = "BeginTurn" -> <<HookCall("on_turn_start", t.actor)>>
      [] t.type = "EndTurn" -> <<HookCall("on_turn_end", t.actor)>>
      [] t.type = "EndCombat" -> <<HookCall("on_combat_end", 0)>>
      [] OTHER -> <<>>

\* transition that records the node before the transition is applied
transition_node_first(t) ==
    LET applied == apply(t, state)
        added == add_node(state_tree, hash_state(state))
        key == EdgeKey(current_node, added.index)
        differs == /\ key \in DOMAIN added.tree.edge_cache
                   /\ added.tree.edge_cache[key].transition # t
        edged == add_edge(added.tree, current_node, added.index, t, debug_assertions)
    IN  IF applied.outcome # "Ok"
        THEN [outcome |-> applied.outcome, state |-> applied.state, state_tree |-> state_tree,
              current_node |-> current_node, added |-> FALSE, merged |-> FALSE,
              differs |-> FALSE, hooks |-> <<>>]
        ELSE IF edged.panicked
        THEN [outcome |-> "Panic", state |-> applied.state, state_tree |-> added.tree,
              current_node |-> current_node, added |-> TRUE, merged |-> FALSE,
              differs |-> TRUE, hooks |-> <<>>]
        ELSE [outcome |-> "Ok", state |-> applied.state, state_tree |-> edged.tree,
              current_node |-> added.index, added |-> TRUE, merged |-> TRUE,
              differs |-> differs, hooks |-> transition_hooks(t)]

\* CombatContext::transition: apply, then add_node, then add_edge
transition(t) ==
    LET applied == apply(t, state)
        added == add_node(state_tree, hash_state(applied.state))
        key == EdgeKey(current_node, added.index)
        differs == /\ key \in DOMAIN added.tree.edge_cache
                   /\ added.tree.edge_cache[key].transition # t
        edged == add_edge(added.tree, current_node, added.index, t, debug_assertions)
    IN  IF applied.outcome # "Ok"
        THEN [outcome |-> applied.outcome, state |-> applied.state, state_tree |-> state_tree,
              current_node |-> current_node, added |-> FALSE, merged |-> FALSE,
              differs |-> FALSE, hooks |-> <<>>]
        ELSE IF edged.panicked
        THEN [outcome |-> "Panic", state |-> applied.state, state_tree |-> added.tree,
              current_node |-> current_node, added |-> TRUE, merged |-> FALSE,
              differs |-> TRUE, hooks |-> <<>>]
        ELSE [outcome |-> "Ok", state |-> applied.state, state_tree |-> edged.tree,
              current_node |-> added.index, added |-> TRUE, merged |-> TRUE,
              differs |-> differs, hooks |-> transition_hooks(t)]

\* history counters: one more call for key k, counted up to HitsMax + 1
Count(calls_so_far, k) ==
    IF k \in DOMAIN calls_so_far
    THEN [calls_so_far EXCEPT ![k] = Min(@ + 1, HitsMax + 1)]
    ELSE (k :> 1) @@ calls_so_far

\* history counters: one more call for every key of the set S
CountAll(calls_so_far, S) ==
    [k \in DOMAIN calls_so_far \cup S |->
        IF k \in S
        THEN IF k \in DOMAIN calls_so_far THEN Min(calls_so_far[k] + 1, HitsMax + 1) ELSE 1
        ELSE calls_so_far[k]]

\* the effect of one transition(t)? call on the context and on the history
Merge(t, m) ==
    /\ state' = m.state
    /\ state_tree' = m.state_tree
    /\ current_node' = m.current_node
    /\ divergence' = (divergence \/ m.differs)
    /\ node_calls' = IF m.added THEN Count(node_calls, hash_state(m.state)) ELSE node_calls
    /\ edge_calls' = IF m.merged THEN Count(edge_calls, EdgeKey(current_node, m.current_node))
                      ELSE edge_calls
    /\ ended' = IF m.merged /\ t = EndCombat THEN ended + 1 ELSE ended
    /\ recorded' = IF m.merged /\ m.current_node \notin DOMAIN recorded
                    THEN (m.current_node :> m.state) @@ recorded ELSE recorded
    /\ last_merged' = IF m.merged THEN t ELSE last_merged
    /\ trial_log' = IF m.merged THEN Append(trial_log, t) ELSE trial_log
    /\ visited_by' = IF m.merged
                     THEN [visited_by EXCEPT !.trial = @ \cup {m.current_node}]
                     ELSE visited_by
    /\ trial_new' = IF m.merged
                    THEN [nodes |-> trial_new.nodes \cup
                                      (NodeIndices(m.state_tree) \ NodeIndices(state_tree)),
                          edges |-> trial_new.edges \cup
                                      (DOMAIN m.state_tree.edge_cache \ DOMAIN state_tree.edge_cache)]
                    ELSE trial_new

\* run_combat returns Err(e): bookkeeping of the history variables
TrialFailed ==
    /\ failed_trial' = [nodes |-> failed_trial.nodes \cup trial_new'.nodes,
                        edges |-> failed_trial.edges \cup trial_new'.edges]
    /\ trial_errors' = trial_errors + 1

\* where a step of run_combat leaves the control: on with the combat, out of
\* run_combat through the ? operator, or a panic of the thread
Finish(outcome, ok_pc) ==
    /\ pc' = CASE outcome = "Ok" -> ok_pc
               [] outcome = "Err" -> "returned"
               [] outcome = "Panic" -> "panicked"
    /\ combat_result' = IF outcome = "Err" THEN "Err" ELSE combat_result
    /\ panicked' = (outcome = "Panic")
    /\ IF outcome = "Err" THEN TrialFailed ELSE UNCHANGED <<failed_trial, trial_errors>>

\* one roller value of the stream: the initiative rolls of a combat, or the
\* action a policy sampled together with the rolls of its evaluation
Draw(rolls, action, ev) == [rolls |-> rolls, action |-> action, ev |-> ev]

\* a run from a roller with the same seed gets the values of the first run
SameSeed(drawn) ==
    rerun.phase = "second" =>
        /\ Len(rerun.stream) + Len(drawn) <= Len(rerun.first[1].stream)
        /\ \A i \in DOMAIN drawn : rerun.first[1].stream[Len(rerun.stream) + i] = drawn[i]

\* one step of a run that takes the values drawn from the roller; a repeated
\* run is followed for as many steps as the run it repeats
Step(drawn) ==
    /\ rerun.phase = "second" => rerun.steps < rerun.first[1].steps
    /\ SameSeed(drawn)
    /\ rerun' = [rerun EXCEPT !.steps = @ + 1, !.stream = @ \o drawn]

\* Integrator::should_continue
should_continue == combats_run < min_combats

Running == ~panicked

(***************************************************************************)
(* CombatContext::new and CombatContext::run_combat                        *)
(***************************************************************************)
\* a context that is built on the node the previous combat ended at
CombatContext_new_stale ==
    /\ state' = initial_state
    /\ current_node' = current_node
    /\ initiative_rolls' = <<>>
    /\ trial_new' = NoTrial
    /\ last_merged' = Root
    /\ trial_log' = <<>>
    /\ visited_by' = [visited_by EXCEPT !.trial = {state_tree.root}]
    /\ recorded' = IF state_tree.root \in DOMAIN recorded THEN recorded
                    ELSE (state_tree.root :> initial_state) @@ recorded

\* CombatContext::new(integrator, state_tree) at the head of run_combat
CombatContext_new ==
    /\ state' = initial_state
    /\ current_node' = state_tree.root
    /\ initiative_rolls' = <<>>
    /\ trial_new' = NoTrial
    /\ last_merged' = Root
    /\ trial_log' = <<>>
    /\ visited_by' = [visited_by EXCEPT !.trial = {state_tree.root}]
    /\ recorded' = IF state_tree.root \in DOMAIN recorded THEN recorded
                    ELSE (state_tree.root :> initial_state) @@ recorded

\* run_combat: transition(BeginCombat)?, then one initiative roll per actor
\* collected into the BTreeMap initiative_rolls
BeginCombatStep ==
    /\ Running /\ pc = "begin_combat"
    /\ LET m == transition(BeginCombat)
       IN  /\ Merge(BeginCombat, m)
           /\ hook_log' = hook_log \o m.hooks
           /\ \E results \in [ActorIds(m.state) ->
                                 UNION {roll(plan_initiative_roll(m.state.actors[a])) :
                                           a \in ActorIds(m.state)}] :
                 /\ \A a \in ActorIds(m.state) :
                        results[a] \in roll(plan_initiative_roll(m.state.actors[a]))
                 /\ initiative_rolls' = IF m.outcome = "Ok"
                                         THEN [a \in ActorIds(m.state) |-> results[a].total]
                                         ELSE <<>>
                 /\ Step(IF m.outcome = "Ok" /\ ActorIds(m.state) # {}
                         THEN <<Draw(results, <<>>, <<>>)>> ELSE <<>>)
           /\ Finish(m.outcome, IF ActorIds(m.state) = {} THEN "advance" ELSE "initiative")
    /\ UNCHANGED <<driver, debug_assertions, overflow_checks, apply_call, roll_call, initial_state, min_combats, combats_run,
                   current_actor_id, action_type, pending, run_result, progress_tx,
                   last_reported, result_tx, calls, visit_args, api_calls, query_call, tree_call>>

\* a loop over the initiative rolls in an arbitrary order of the actors
InitiativeRollStep_any_order ==
    /\ Running /\ pc = "initiative"
    /\ \E actor_id \in DOMAIN initiative_rolls :
       LET t == InitiativeRoll(actor_id, initiative_rolls[actor_id])
           m == transition(t)
           rest == [a \in DOMAIN initiative_rolls \ {actor_id} |-> initiative_rolls[a]]
       IN  /\ Merge(t, m)
           /\ hook_log' = hook_log \o m.hooks
           /\ initiative_rolls' = rest
           /\ Finish(m.outcome, IF DOMAIN rest = {} THEN "advance" ELSE "initiative")
    /\ Step(<<>>)
    /\ UNCHANGED <<driver, debug_assertions, overflow_checks, apply_call, roll_call, initial_state, min_combats, combats_run,
                   current_actor_id, action_type, pending, run_result, progress_tx,
                   last_reported, result_tx, calls, visit_args, api_calls, query_call, tree_call>>

\* run_combat: the loop over initiative_rolls, in ascending actor id
InitiativeRollStep ==
    /\ Running /\ pc = "initiative"
    /\ LET actor_id == CHOOSE a \in DOMAIN initiative_rolls :
                           \A b \in DOMAIN initiative_rolls : a <= b
           t == InitiativeRoll(actor_id, initiative_rolls[actor_id])
           m == transition(t)
           rest == [a \in DOMAIN initiative_rolls \ {actor_id} |-> initiative_rolls[a]]
       IN  /\ Merge(t, m)
           /\ hook_log' = hook_log \o m.hooks
           /\ initiative_rolls' = rest
           /\ Finish(m.outcome, IF DOMAIN rest = {} THEN "advance" ELSE "initiative")
    /\ Step(<<>>)
    /\ UNCHANGED <<driver, debug_assertions, overflow_checks, apply_call, roll_call, initial_state, min_combats, combats_run,
                   current_actor_id, action_type, pending, run_result, progress_tx,
                   last_reported, result_tx, calls, visit_args, api_calls, query_call, tree_call>>

\* advance_turn returns Ok(false); run_combat goes on with transition(EndCombat)?
EndCombatStep ==
    /\ Running /\ pc = "advance"
    /\ Len(state.initiative_order) = 0 \/ is_combat_over(state)
    /\ LET m == transition(EndCombat)
       IN  /\ Merge(EndCombat, m)
           /\ hook_log' = hook_log \o m.hooks
           /\ Finish(m.outcome, "record")
    /\ Step(<<>>)
    /\ UNCHANGED <<driver, debug_assertions, overflow_checks, apply_call, roll_call, initial_state, min_combats, combats_run,
                   initiative_rolls, current_actor_id, action_type, pending, run_result,
                   progress_tx, last_reported, result_tx, calls, visit_args, api_calls, query_call, tree_call>>

(***************************************************************************)
(* CombatContext::advance_turn and CombatContext::evaluate_action          *)
(***************************************************************************)
\* advance_turn without the check for an unconscious or dead actor
AdvanceInitiativeStep_no_skip ==
    /\ Running /\ pc = "advance"
    /\ ~(Len(state.initiative_order) = 0 \/ is_combat_over(state))
    /\ state.turn * Len(state.initiative_order) + UnwrapOr(state.current_turn_index, 0) < MaxTurn
    /\ LET m == transition(AdvanceInitiative)
           id == m.state.initiative_order[Unwrap(m.state.current_turn_index) + 1]
           found == m.outcome = "Ok" /\ id \in ActorIds(m.state)
           skipped == FALSE
       IN  /\ Merge(AdvanceInitiative, m)
           /\ hook_log' = hook_log \o m.hooks
           /\ current_actor_id' = IF found THEN id ELSE current_actor_id
           /\ Finish(IF m.outcome = "Ok" /\ ~found THEN "Err" ELSE m.outcome,
                     IF skipped THEN "advance" ELSE "begin_turn")
    /\ Step(<<>>)
    /\ UNCHANGED <<driver, debug_assertions, overflow_checks, apply_call, roll_call, initial_state, min_combats, combats_run,
                   initiative_rolls, action_type, pending, run_result, progress_tx,
                   last_reported, result_tx, calls, visit_args, api_calls, query_call, tree_call>>

\* advance_turn up to the turn's first merge: transition(AdvanceInitiative)?,
\* then the look-up of the actor whose turn it is
AdvanceInitiativeStep ==
    /\ Running /\ pc = "advance"
    /\ ~(Len(state.initiative_order) = 0 \/ is_combat_over(state))
    /\ state.turn * Len(state.initiative_order) + UnwrapOr(state.current_turn_index, 0) < MaxTurn
    /\ LET m == transition(AdvanceInitiative)
           id == m.state.initiative_order[Unwrap(m.state.current_turn_index) + 1]
           found == m.outcome = "Ok" /\ id \in ActorIds(m.state)
           skipped == found /\ (is_unconscious(m.state.actors[id]) \/ is_dead(m.state.actors[id]))
       IN  /\ Merge(AdvanceInitiative, m)
           /\ hook_log' = hook_log \o m.hooks
           /\ current_actor_id' = IF found THEN id ELSE current_actor_id
           /\ Finish(IF m.outcome = "Ok" /\ ~found THEN "Err" ELSE m.outcome,
                     IF skipped THEN "advance" ELSE "begin_turn")
    /\ Step(<<>>)
    /\ UNCHANGED <<driver, debug_assertions, overflow_checks, apply_call, roll_call, initial_state, min_combats, combats_run,
                   initiative_rolls, action_type, pending, run_result, progress_tx,
                   last_reported, result_tx, calls, visit_args, api_calls, query_call, tree_call>>

\* advance_turn: transition(BeginTurn { actor })?
BeginTurnStep ==
    /\ Running /\ pc = "begin_turn"
    /\ LET t == BeginTurn(current_actor_id)
           m == transition(t)
       IN  /\ Merge(t, m)
           /\ hook_log' = hook_log \o m.hooks
           /\ Finish(m.outcome, "act")
    /\ action_type' = "Action"
    /\ Step(<<>>)
    /\ UNCHANGED <<driver, debug_assertions, overflow_checks, apply_call, roll_call, initial_state, min_combats, combats_run,
                   initiative_rolls, current_actor_id, pending, run_result, progress_tx,
                   last_reported, result_tx, calls, visit_args, api_calls, query_call, tree_call>>

\* the for loop over [Action, BonusAction] moves on after a slot
NextSlotPc == IF action_type = "Action" THEN "act" ELSE "end_turn"
NextSlot == IF action_type = "Action" THEN "BonusAction" ELSE action_type

\* evaluate_action after transition(ActionEconomyUsed): the attack roll, the hit
\* test and the damage roll.  Each result is the outcome and, for a hit, the
\* HealthModification that is merged next.
evaluate_rolls(st, actor_id, action) ==
    LET actor == st.actors[actor_id]
        NoHit == [outcome |-> "Ok", hit |-> FALSE, t |-> Root]
        Fail(o) == [outcome |-> o, hit |-> FALSE, t |-> Root]
        Damage(target, plan) ==
            IF Roller_roll_failures(plan) # {}
            THEN {Fail(o) : o \in Roller_roll_failures(plan)}
            ELSE {[outcome |-> "Ok", hit |-> TRUE,
                   t |-> HealthModification(target.id, -damage_result.total)] :
                      damage_result \in roll(plan)}
    IN  CASE action.kind = "Wait" -> {NoHit}
          [] action.kind = "UnarmedStrike" ->
                IF action.target \notin ActorIds(st) THEN {Fail("Err")}
                ELSE LET target == st.actors[action.target]
                     IN  UNION {IF meets_dc(attack_result, target.armor_class)
                                THEN Damage(target,
                                            IF is_critical_success(attack_result)
                                            THEN plan_unarmed_strike_crit_damage(actor)
                                            ELSE plan_unarmed_strike_damage(actor))
                                ELSE {NoHit} :
                                   attack_result \in roll(plan_unarmed_strike_roll(actor))}
          [] action.kind = "Attack" ->
                IF action.target \notin ActorIds(st) THEN {Fail("Err")}
                ELSE IF action.weapon_used \notin DOMAIN st.items THEN {Fail("Err")}
                ELSE IF st.items[action.weapon_used].kind # "Weapon" THEN {Fail("Err")}
                ELSE LET target == st.actors[action.target]
                         weapon_used == st.items[action.weapon_used]
                     IN  UNION {IF meets_dc(attack_result, target.armor_class)
                                THEN Damage(target,
                                            IF is_critical_success(attack_result)
                                            THEN UnwrapOr(weapon_used.critical_damage,
                                                          weapon_used.damage)
                                            ELSE weapon_used.damage)
                                ELSE {NoHit} :
                                   attack_result \in roll(plan_attack_roll(actor, weapon_used))}

\* one pass of the slot loop up to its last merge but one: policy.take_action,
\* then evaluate_action with transition(ActionEconomyUsed)? and the rolls
ActionStep ==
    /\ Running /\ pc = "act"
    /\ \E action \in take_action(action_type, current_actor_id, state) :
         LET actor == state.actors[current_actor_id]
         IN  IF \/ is_unconscious(actor) \/ is_dead(actor)
                \/ ~can_take_action(actor, action.action_economy_usage)
             THEN /\ pc' = NextSlotPc
                  /\ action_type' = NextSlot
                  /\ hook_log' = Append(hook_log, HookCall("on_action_executed", current_actor_id))
                  /\ Step(<<Draw(<<>>, <<action>>, <<>>)>>)
                  /\ UNCHANGED <<state, state_tree, current_node, divergence, node_calls, edge_calls, ended,
                                 recorded, last_merged, trial_log, trial_new, pending, combat_result,
                                 panicked, failed_trial, trial_errors, visited_by>>
             ELSE LET t == ActionEconomyUsed(current_actor_id, action.action_economy_usage)
                      m == transition(t)
                  IN  /\ Merge(t, m)
                      /\ IF m.outcome # "Ok"
                         THEN /\ Finish(m.outcome, pc)
                              /\ Step(<<Draw(<<>>, <<action>>, <<>>)>>)
                              /\ UNCHANGED <<pending, action_type, hook_log>>
                         ELSE \E ev \in evaluate_rolls(m.state, current_actor_id, action) :
                                /\ pending' = IF ev.hit THEN ev.t ELSE pending
                                /\ action_type' = IF ev.outcome = "Ok" /\ ~ev.hit
                                                   THEN NextSlot ELSE action_type
                                /\ hook_log' = IF ev.outcome = "Ok" /\ ~ev.hit
                                                THEN Append(hook_log, HookCall("on_action_executed", current_actor_id))
                                                ELSE hook_log
                                /\ Step(<<Draw(<<>>, <<action>>, <<ev>>)>>)
                                /\ Finish(ev.outcome, IF ev.hit THEN "health" ELSE NextSlotPc)
    /\ UNCHANGED <<driver, debug_assertions, overflow_checks, apply_call, roll_call, initial_state, min_combats, combats_run,
                   initiative_rolls, current_actor_id, run_result, progress_tx,
                   last_reported, result_tx, calls, visit_args, api_calls, query_call, tree_call>>

\* evaluate_action: transition(HealthModification { target, delta })? for a hit
HealthModificationStep ==
    /\ Running /\ pc = "health"
    /\ LET m == transition(pending)
       IN  /\ Merge(pending, m)
           /\ hook_log' = hook_log \o m.hooks \o
                  (IF m.outcome = "Ok" THEN <<HookCall("on_action_executed", current_actor_id)>> ELSE <<>>)
           /\ Finish(m.outcome, NextSlotPc)
    /\ action_type' = NextSlot
    /\ Step(<<>>)
    /\ UNCHANGED <<driver, debug_assertions, overflow_checks, apply_call, roll_call, initial_state, min_combats, combats_run,
                   initiative_rolls, current_actor_id, pending, run_result, progress_tx,
                   last_reported, result_tx, calls, visit_args, api_calls, query_call, tree_call>>

\* advance_turn: transition(EndTurn { actor })?; Ok(true)
EndTurnStep ==
    /\ Running /\ pc = "end_turn"
    /\ LET t == EndTurn(current_actor_id)
           m == transition(t)
       IN  /\ Merge(t, m)
           /\ hook_log' = hook_log \o m.hooks
           /\ Finish(m.outcome, "advance")
    /\ Step(<<>>)
    /\ UNCHANGED <<driver, debug_assertions, overflow_checks, apply_call, roll_call, initial_state, min_combats, combats_run,
                   initiative_rolls, current_actor_id, action_type, pending, run_result,
                   progress_tx, last_reported, result_tx, calls, visit_args, api_calls, query_call, tree_call>>

\* run_combat: self.integrator.record_combat(); Ok(())
RecordCombat ==
    /\ Running /\ pc = "record"
    /\ combats_run' = combats_run + 1
    /\ combat_result' = "Ok"
    /\ pc' = "returned"
    /\ visited_by' = [visited_by EXCEPT !.completed = CountAll(@, visited_by.trial)]
    /\ Step(<<>>)
    /\ UNCHANGED <<driver, debug_assertions, overflow_checks, apply_call, roll_call, initial_state, min_combats, state_tree, state,
                   current_node, initiative_rolls, current_actor_id, action_type, pending,
                   run_result, panicked, progress_tx, last_reported, result_tx, calls,
                   visit_args, recorded, node_calls, edge_calls, ended, divergence, last_merged, trial_log, trial_new,
                   failed_trial, trial_errors, api_calls, query_call, hook_log, tree_call>>

(***************************************************************************)
(* Integrator::run (simulation/integration.rs)                             *)
(***************************************************************************)
\* run: let mut state_tree = StateTree::new(self.initial_state.clone())
RunStart ==
    /\ driver = "run" /\ pc = "new"
    /\ hook_log' = Append(hook_log, HookCall("on_integration_start", 0))
    /\ state_tree' = StateTree_new(initial_state)
    /\ node_calls' = Count(<<>>, hash_state(initial_state))
    /\ recorded' = (0 :> initial_state)
    /\ pc' = "loop"
    /\ Step(<<>>)
    /\ UNCHANGED <<driver, debug_assertions, overflow_checks, apply_call, roll_call, initial_state, min_combats, combats_run, state,
                   current_node, initiative_rolls, current_actor_id, action_type, pending,
                   combat_result, run_result, panicked, progress_tx, last_reported, result_tx,
                   calls, visit_args, divergence, last_merged, trial_log, trial_new, failed_trial,
                   trial_errors, api_calls, edge_calls, ended, query_call, visited_by, tree_call>>

\* run: while self.should_continue() { self.run_combat(&mut state_tree) ...
RunCombat ==
    /\ driver = "run" /\ pc = "loop"
    /\ should_continue
    /\ CombatContext_new
    /\ pc' = "begin_combat"
    /\ Step(<<>>)
    /\ UNCHANGED <<driver, debug_assertions, overflow_checks, apply_call, roll_call, initial_state, min_combats, combats_run,
                   state_tree, current_actor_id, action_type, pending, combat_result,
                   run_result, panicked, progress_tx, last_reported, result_tx, calls,
                   visit_args, node_calls, edge_calls, ended, divergence, failed_trial, trial_errors, api_calls, query_call, hook_log, tree_call>>

\* a loop that drops what run_combat returned and goes on
RunCombatReturned_ok ==
    /\ driver = "run" /\ pc = "returned"
    /\ pc' = "loop"
    /\ Step(<<>>)
    /\ UNCHANGED <<driver, debug_assertions, overflow_checks, apply_call, roll_call, initial_state, min_combats, combats_run,
                   state_tree, state, current_node, initiative_rolls, current_actor_id,
                   action_type, pending, combat_result, run_result, panicked, progress_tx,
                   last_reported, result_tx, calls, visit_args, recorded, node_calls,
                   edge_calls, ended, divergence, last_merged, trial_log, trial_new, failed_trial,
                   trial_errors, api_calls, query_call, visited_by, hook_log, tree_call>>

\* run: ... ?; } the ? operator on what run_combat returned
RunCombatReturned ==
    /\ driver = "run" /\ pc = "returned"
    /\ IF combat_result = "Err"
       THEN run_result' = "Err" /\ pc' = "done"
       ELSE run_result' = run_result /\ pc' = "loop"
    /\ Step(<<>>)
    /\ UNCHANGED <<driver, debug_assertions, overflow_checks, apply_call, roll_call, initial_state, min_combats, combats_run,
                   state_tree, state, current_node, initiative_rolls, current_actor_id,
                   action_type, pending, combat_result, panicked, progress_tx, last_reported,
                   result_tx, calls, visit_args, recorded, node_calls, edge_calls, ended, divergence,
                   last_merged, trial_log, trial_new, failed_trial, trial_errors, api_calls, query_call, visited_by, hook_log, tree_call>>

\* run: the loop is left; Ok(results)
RunReturnsOk ==
    /\ driver = "run" /\ pc = "loop"
    /\ ~should_continue
    /\ hook_log' = hook_log \o <<HookCall("on_integration_end", 0), HookCall("metrics", 0)>>
    /\ run_result' = "Ok"
    /\ pc' = "done"
    /\ Step(<<>>)
    /\ UNCHANGED <<driver, debug_assertions, overflow_checks, apply_call, roll_call, initial_state, min_combats, combats_run,
                   state_tree, state, current_node, initiative_rolls, current_actor_id,
                   action_type, pending, combat_result, panicked, progress_tx, last_reported,
                   result_tx, calls, visit_args, recorded, node_calls, edge_calls, ended, divergence,
                   last_merged, trial_log, trial_new, failed_trial, trial_errors, api_calls, query_call, visited_by, tree_call>>

\* run is called again on the Integrator whose run returned Ok: the hooks are
\* told the start, a new StateTree is made, and the loop is entered with the
\* Integrator's fields (combats_run among them) as the first call left them
RunCalledAgain ==
    /\ driver = "run" /\ pc = "done" /\ run_result = "Ok"
    /\ rerun.phase = "first"
    /\ calls = <<>> /\ query_call = NoCall
    /\ rerun' = [rerun EXCEPT !.phase = "again"]
    /\ hook_log' = Append(hook_log, HookCall("on_integration_start", 0))
    /\ state_tree' = StateTree_new(initial_state)
    /\ node_calls' = Count(<<>>, hash_state(initial_state))
    /\ edge_calls' = <<>>
    /\ recorded' = (0 :> initial_state)
    /\ visited_by' = [trial |-> {}, completed |-> <<>>]
    /\ state' = initial_state
    /\ current_node' = 0
    /\ divergence' = FALSE
    /\ last_merged' = Root
    /\ trial_log' = <<>>
    /\ trial_new' = NoTrial
    /\ failed_trial' = NoTrial
    /\ combat_result' = "None"
    /\ run_result' = "None"
    /\ pc' = "loop"
    /\ UNCHANGED <<driver, debug_assertions, overflow_checks, apply_call, roll_call, initial_state,
                   min_combats, combats_run, initiative_rolls, current_actor_id, action_type,
                   pending, panicked, progress_tx, last_reported, result_tx, calls, visit_args,
                   ended, trial_errors, api_calls, query_call, tree_call>>

\* the run is repeated: a second Integrator::new(min_combats, roller, initial_state)
\* with a roller made from the same seed; what the first run had built after
\* its steps so far is kept for comparison.  The first run is left where a
\* combat stands between two turns or has returned, or where the run is over.
RunAgain ==
    /\ driver = "run" /\ rerun.phase = "first"
    /\ pc \in {"advance", "returned", "done", "panicked"}
    /\ rerun' = [phase |-> "second", steps |-> 0, stream |-> <<>>,
                 first |-> <<[steps |-> rerun.steps, stream |-> rerun.stream,
                              state_tree |-> state_tree, state |-> state,
                              current_node |-> current_node, combats_run |-> combats_run,
                              run_result |-> run_result, panicked |-> panicked]>>]
    /\ combats_run' = 0
    /\ state_tree' = EmptyTree(initial_state)
    /\ state' = initial_state
    /\ current_node' = 0
    /\ pc' = "new"
    /\ initiative_rolls' = <<>>
    /\ current_actor_id' = 0
    /\ action_type' = "Action"
    /\ pending' = Root
    /\ combat_result' = "None"
    /\ run_result' = "None"
    /\ panicked' = FALSE
    /\ progress_tx' = <<>>
    /\ last_reported' = 0
    /\ result_tx' = <<>>
    /\ calls' = <<>>
    /\ visit_args' = [externals_only |-> FALSE, stop |-> {}]
    /\ recorded' = <<>>
    /\ node_calls' = <<>>
    /\ edge_calls' = <<>>
    /\ ended' = 0
    /\ divergence' = FALSE
    /\ last_merged' = Root
    /\ trial_log' = <<>>
    /\ apply_call' = NoCall
    /\ roll_call' = NoCall
    /\ trial_new' = NoTrial
    /\ failed_trial' = NoTrial
    /\ trial_errors' = 0
    /\ api_calls' = 0
    /\ hook_log' = <<>>
    /\ visited_by' = [trial |-> {}, completed |-> <<>>]
    /\ query_call' = NoCall
    /\ UNCHANGED <<driver, debug_assertions, overflow_checks, initial_state, min_combats, tree_call>>

(***************************************************************************)
(* SimulationApp::spawn_integrator (antikythera-gui/src/app/simulation.rs) *)
(***************************************************************************)
\* spawn_integrator: let mut state_tree = StateTree::new(state.clone()); the
\* worker thread is spawned
SpawnIntegrator ==
    /\ driver = "gui" /\ pc = "new"
    /\ state_tree' = StateTree_new(initial_state)
    /\ node_calls' = Count(<<>>, hash_state(initial_state))
    /\ recorded' = (0 :> initial_state)
    /\ last_reported' = 0
    /\ hook_log' = Append(hook_log, HookCall("on_integration_start", 0))
    /\ pc' = "loop"
    /\ UNCHANGED <<driver, debug_assertions, overflow_checks, apply_call, roll_call, initial_state, min_combats, combats_run, state,
                   current_node, initiative_rolls, current_actor_id, action_type, pending,
                   combat_result, run_result, panicked, progress_tx, result_tx, calls,
                   visit_args, divergence, last_merged, trial_log, trial_new, failed_trial, trial_errors, api_calls, edge_calls, ended, query_call, visited_by, rerun, tree_call>>

\* worker: while integrator.should_continue() { integrator.run_combat(&mut state_tree) ...
WorkerRunCombat ==
    /\ driver = "gui" /\ pc = "loop"
    /\ should_continue
    /\ trial_errors < MaxErrors
    /\ CombatContext_new
    /\ pc' = "begin_combat"
    /\ UNCHANGED <<driver, debug_assertions, overflow_checks, apply_call, roll_call, initial_state, min_combats, combats_run,
                   state_tree, current_actor_id, action_type, pending, combat_result,
                   run_result, panicked, progress_tx, last_reported, result_tx, calls,
                   visit_args, node_calls, edge_calls, ended, divergence, failed_trial, trial_errors, api_calls, query_call, hook_log, rerun, tree_call>>

\* worker: ... .ok(); then the progress report.  progress = completed / total
\* and last_reported are kept as completed-combat counts: the test
\* (progress - last_reported) >= 0.01 is completed * 100 - last * 100 >= total.
WorkerCombatReturned ==
    /\ driver = "gui" /\ pc = "returned"
    /\ LET completed == combats_run
           total == min_combats
           report == (completed - last_reported) * 100 >= total \/ completed = total
       IN  /\ last_reported' = IF report THEN completed ELSE last_reported
           /\ progress_tx' = IF report THEN Append(progress_tx, completed) ELSE progress_tx
    /\ pc' = "loop"
    /\ UNCHANGED <<driver, debug_assertions, overflow_checks, apply_call, roll_call, initial_state, min_combats, combats_run,
                   state_tree, state, current_node, initiative_rolls, current_actor_id,
                   action_type, pending, combat_result, run_result, panicked, result_tx,
                   calls, visit_args, recorded, node_calls, edge_calls, ended, divergence, last_merged, trial_log,
                   trial_new, failed_trial, trial_errors, api_calls, api_calls, query_call, visited_by, hook_log, rerun, tree_call>>

\* worker: the loop is left; result_tx.send(results) with state_tree.clone()
WorkerSendsResults ==
    /\ driver = "gui" /\ pc = "loop"
    /\ ~should_continue
    /\ hook_log' = hook_log \o <<HookCall("on_integration_end", 0), HookCall("metrics", 0)>>
    /\ result_tx' = Append(result_tx, [state_tree |-> state_tree, combats_run |-> combats_run])
    /\ pc' = "done"
    /\ UNCHANGED <<driver, debug_assertions, overflow_checks, apply_call, roll_call, initial_state, min_combats, combats_run,
                   state_tree, state, current_node, initiative_rolls, current_actor_id,
                   action_type, pending, combat_result, run_result, panicked, progress_tx,
                   last_reported, calls, visit_args, recorded, node_calls, edge_calls, ended, divergence,
                   last_merged, trial_log, trial_new, failed_trial, trial_errors, api_calls, query_call, visited_by, rerun, tree_call>>

(***************************************************************************)
(* Direct use of the public API: StateTree::new, CombatContext::new,       *)
(* CombatContext::transition, StateTree::visit_states                      *)
(***************************************************************************)
\* the transitions a caller hands to CombatContext::transition
ApiTransitions ==
    {BeginCombat, EndCombat, AdvanceInitiative, EndTurn(1), HealthModification(1, 0),
     HealthModification(1, -1), ActionEconomyUsed(1, "Action")}

\* StateTree::new(initial_state) followed by CombatContext::new
ApiNewTree ==
    /\ driver = "api" /\ pc = "new"
    /\ state_tree' = StateTree_new(initial_state)
    /\ node_calls' = Count(<<>>, hash_state(initial_state))
    /\ state' = initial_state
    /\ current_node' = 0
    /\ recorded' = (0 :> initial_state)
    /\ pc' = "api"
    /\ UNCHANGED <<driver, debug_assertions, overflow_checks, apply_call, roll_call, initial_state, min_combats, combats_run,
                   initiative_rolls, current_actor_id, action_type, pending, combat_result,
                   run_result, panicked, progress_tx, last_reported, result_tx, calls,
                   visit_args, divergence, last_merged, trial_log, trial_new, failed_trial, trial_errors, api_calls, edge_calls, ended, query_call, visited_by, hook_log, rerun, tree_call>>

\* CombatContext::new on the tree built so far: the next trial starts at the root
ApiNewContext ==
    /\ driver = "api" /\ pc = "api"
    /\ current_node # state_tree.root
    /\ CombatContext_new
    /\ UNCHANGED <<driver, debug_assertions, overflow_checks, apply_call, roll_call, initial_state, min_combats, combats_run,
                   state_tree, pc, current_actor_id, action_type, pending, combat_result,
                   run_result, panicked, progress_tx, last_reported, result_tx, calls,
                   visit_args, node_calls, edge_calls, ended, divergence, failed_trial, trial_errors, api_calls, query_call, hook_log, rerun, tree_call>>

\* one call context.transition(t); an Err leaves the context usable
ApiTransition ==
    /\ driver = "api" /\ pc = "api"
    /\ \E t \in ApiTransitions :
         LET m == transition(t)
         IN  /\ api_calls < MaxCalls
             /\ api_calls' = api_calls + 1
             /\ Merge(t, m)
             /\ hook_log' = hook_log \o m.hooks
             /\ combat_result' = m.outcome
             /\ panicked' = (m.outcome = "Panic")
             /\ pc' = IF m.outcome = "Panic" THEN "panicked" ELSE pc
    /\ UNCHANGED <<driver, debug_assertions, overflow_checks, apply_call, roll_call, initial_state, min_combats, combats_run,
                   initiative_rolls, current_actor_id, action_type, pending, run_result,
                   progress_tx, last_reported, result_tx, calls, visit_args, failed_trial,
                   trial_errors, query_call, rerun, tree_call>>

\* the tree is in the hands of a consumer: returned by run, received from the
\* GUI worker, or owned by the direct caller
TreeAvailable ==
    \/ driver = "api" /\ pc = "api"
    \/ driver = "run" /\ pc = "done" /\ run_result = "Ok"
    \/ driver = "gui" /\ pc = "done" /\ Len(result_tx) > 0

\* state_tree.visit_states(externals_only, visitor)
Visit ==
    /\ TreeAvailable
    /\ \E externals_only \in BOOLEAN :
       \E stop \in {{}} \cup {{n} : n \in NodeIndices(state_tree)} :
         LET v == visit_states(state_tree, externals_only, stop)
         IN  /\ visit_args' = [externals_only |-> externals_only, stop |-> stop]
             /\ calls' = v.calls
             /\ panicked' = v.panicked
    /\ pc' = "visited"
    /\ UNCHANGED <<driver, debug_assertions, overflow_checks, apply_call, roll_call, initial_state, min_combats, combats_run,
                   state_tree, state, current_node, initiative_rolls, current_actor_id,
                   action_type, pending, combat_result, run_result, progress_tx,
                   last_reported, result_tx, recorded, node_calls, edge_calls, ended, divergence,
                   last_merged, trial_log, trial_new, failed_trial, trial_errors, api_calls, query_call, visited_by, hook_log, rerun, tree_call>>

(***************************************************************************)
(* ScriptProbabilityQuery (antikythera-gui/src/app/scripting/analysis.rs)  *)
(***************************************************************************)
\* the Lua function query(state) of the script: a total predicate on states
Conditions == {"always", "never", "in_combat", "first_actor_alive"}

condition(name, st) ==
    CASE name = "always" -> TRUE
      [] name = "never" -> FALSE
      [] name = "in_combat" -> IsSome(st.current_turn_index)
      [] name = "first_actor_alive" -> 1 \in ActorIds(st) /\ is_alive(st.actors[1])

\* the visitor closure over the invocations of one traversal, from the i-th
\* on: count += hits when the function returns true, total_states += hits.
\* The u64 sums are exact: every add_node call adds at most one hit to one
\* node, so they stay below the number of add_node calls made.
RECURSIVE query_visitor(_, _, _, _)
query_visitor(invocations, name, i, acc) ==
    IF i > Len(invocations) THEN acc
    ELSE LET hits == invocations[i].hits
             result == condition(name, invocations[i].state)
         IN  query_visitor(invocations, name, i + 1,
                           [count |-> IF result THEN acc.count + hits ELSE acc.count,
                            total_states |-> acc.total_states + hits])

\* a query that counts one per visited state instead of its hits
query_unweighted(tree, externals_only, name) ==
    LET v == visit_states(tree, externals_only, {})
        matching == {i \in DOMAIN v.calls : condition(name, v.calls[i].state)}
        count == Cardinality(matching)
        total_states == Len(v.calls)
    IN  [count |-> count, total_states |-> total_states,
         result |-> IF total_states > 0 THEN <<count, total_states>> ELSE <<0, 1>>]

\* ScriptProbabilityQuery::query.  The f64 it returns is held as the fraction
\* <<count, total_states>> (count as f64 / total_states as f64), and 0.0 as <<0, 1>>.
query(tree, externals_only, name) ==
    LET v == visit_states(tree, externals_only, {})
        sums == query_visitor(v.calls, name, 1, [count |-> 0, total_states |-> 0])
    IN  [count |-> sums.count, total_states |-> sums.total_states,
         result |-> IF sums.total_states > 0
                    THEN <<sums.count, sums.total_states>> ELSE <<0, 1>>]

\* AnalysisScriptInterface::run_outcome_probability_query(state_tree)
Query ==
    /\ TreeAvailable
    /\ \E externals_only \in BOOLEAN : \E name \in Conditions :
         LET q == query(state_tree, externals_only, name)
         IN  query_call' = [op |-> "query", externals_only |-> externals_only,
                            condition |-> name, count |-> q.count,
                            total_states |-> q.total_states, result |-> q.result]
    /\ pc' = "queried"
    /\ UNCHANGED <<driver, debug_assertions, overflow_checks, apply_call, roll_call, initial_state, min_combats, combats_run,
                   state_tree, state, current_node, initiative_rolls, current_actor_id,
                   action_type, pending, combat_result, run_result, panicked, progress_tx,
                   last_reported, result_tx, calls, visit_args, recorded, node_calls, edge_calls, ended, divergence,
                   last_merged, trial_log, trial_new, failed_trial, trial_errors, api_calls, visited_by, hook_log, rerun, tree_call>>

(***************************************************************************)
(* The petgraph-backed StateTree (statistics/state_tree.rs) and the serde  *)
(* round trip of both state trees                                          *)
(***************************************************************************)
\* statistics StateTree::new: the root is added to the graph and to state_cache
statistics_StateTree_new(initial) ==
    [initial_state |-> initial,
     graph |-> [nodes |-> <<[state_hash |-> hash_state(initial), hits |-> 1]>>,
                edges |-> <<>>],
     root |-> 0,
     total_node_hits |-> 0,
     total_edge_hits |-> 0,
     state_cache |-> (hash_state(initial) :> 0)]

\* statistics StateTree::add_node: a cached state gets one more hit, any other
\* state a new graph node; the new node is not entered into state_cache
statistics_add_node(tree, st) ==
    LET state_hash == hash_state(st)
    IN  IF state_hash \in DOMAIN tree.state_cache
        THEN LET existing_index == tree.state_cache[state_hash]
             IN  IF existing_index + 1 \in DOMAIN tree.graph.nodes
                 THEN [tree |-> [tree EXCEPT
                                    !.graph.nodes[existing_index + 1].hits = saturating_add(@, 1),
                                    !.total_node_hits = saturating_add(@, 1)],
                       index |-> existing_index]
                 ELSE [tree |-> tree, index |-> existing_index]
        ELSE [tree |-> [tree EXCEPT !.graph.nodes =
                                        Append(@, [state_hash |-> state_hash, hits |-> 1])],
              index |-> Len(tree.graph.nodes)]

\* a map as serde writes it: its entries
Entries(map) == {<<k, map[k]>> : k \in DOMAIN map}
\* a map as serde reads it back from its entries
FromEntries(entries) ==
    [k \in {e[1] : e \in entries} |-> (CHOOSE e \in entries : e[1] = k)[2]]

\* #[derive(Serialize)] of the petgraph-backed tree: state_cache is #[serde(skip)]
statistics_serialize(tree) ==
    [initial_state |-> tree.initial_state, graph |-> tree.graph, root |-> tree.root,
     total_node_hits |-> tree.total_node_hits, total_edge_hits |-> tree.total_edge_hits]

\* #[derive(Deserialize)] of the petgraph-backed tree: a skipped field is
\* filled with Default::default() when it is not in the input
statistics_deserialize(ser) ==
    [initial_state |-> ser.initial_state, graph |-> ser.graph, root |-> ser.root,
     total_node_hits |-> ser.total_node_hits, total_edge_hits |-> ser.total_edge_hits,
     state_cache |-> IF "state_cache" \in DOMAIN ser THEN FromEntries(ser.state_cache)
                     ELSE <<>>]

\* #[derive(Serialize)] of the Vec-based tree: every field is written
serialize(tree) ==
    [initial_state |-> tree.initial_state, root |-> tree.root, nodes |-> tree.nodes,
     total_node_hits |-> tree.total_node_hits, total_edge_hits |-> tree.total_edge_hits,
     state_cache |-> Entries(tree.state_cache), edge_cache |-> Entries(tree.edge_cache),
     neighbors |-> tree.neighbors]

\* #[derive(Deserialize)] of the Vec-based tree
deserialize(ser) ==
    [initial_state |-> ser.initial_state, root |-> ser.root, nodes |-> ser.nodes,
     total_node_hits |-> ser.total_node_hits, total_edge_hits |-> ser.total_edge_hits,
     state_cache |-> FromEntries(ser.state_cache), edge_cache |-> FromEntries(ser.edge_cache),
     neighbors |-> ser.neighbors]

\* the states handed to add_node in a round-trip call
RoundTripStates == {EmptyState, SoloState}

\* new(initial_state) followed by add_node for each state of adds
RECURSIVE BuildTree(_, _, _)
BuildTree(kind, initial, adds) ==
    IF adds = <<>>
    THEN IF kind = "statistics" THEN statistics_StateTree_new(initial)
         ELSE StateTree_new(initial)
    ELSE LET before == BuildTree(kind, initial, SubSeq(adds, 1, Len(adds) - 1))
             st == adds[Len(adds)]
         IN  IF kind = "statistics" THEN statistics_add_node(before, st).tree
             ELSE add_node(before, hash_state(st)).tree

\* a tree is built, written out and read back; then add_node(probe) is called
\* on the original and on the restored tree
RoundTripCall ==
    /\ driver = "unit" /\ pc = "new"
    /\ apply_call = NoCall /\ roll_call = NoCall /\ tree_call = NoCall
    /\ \E kind \in {"simulation", "statistics"} :
       \E adds \in {<<>>} \cup {<<s>> : s \in RoundTripStates} \cup
                   {<<s, t>> : s \in RoundTripStates, t \in RoundTripStates} :
       \E probe \in RoundTripStates :
         LET tree == BuildTree(kind, EmptyState, adds)
             ser == IF kind = "statistics" THEN statistics_serialize(tree) ELSE serialize(tree)
             restored == IF kind = "statistics" THEN statistics_deserialize(ser)
                         ELSE deserialize(ser)
             Add(tr) == IF kind = "statistics" THEN statistics_add_node(tr, probe)
                        ELSE add_node(tr, hash_state(probe))
         IN  tree_call' = [op |-> "round_trip", kind |-> kind, adds |-> adds, probe |-> probe,
                           tree |-> tree, serialized |-> ser, restored |-> restored,
                           original_added |-> Add(tree), restored_added |-> Add(restored)]
    /\ UNCHANGED <<driver, debug_assertions, overflow_checks, apply_call, roll_call, initial_state,
                   min_combats, combats_run, state_tree, state, current_node, pc,
                   initiative_rolls, current_actor_id, action_type, pending, combat_result,
                   run_result, panicked, progress_tx, last_reported, result_tx, calls,
                   visit_args, recorded, node_calls, edge_calls, ended, divergence,
                   last_merged, trial_log, trial_new, failed_trial, trial_errors, api_calls, query_call, visited_by, hook_log, rerun>>

(***************************************************************************)
(* Integrator::apply_logs (statistics/integration.rs) and                  *)
(* StateTree::resolve_state (statistics/state_tree.rs)                     *)
(***************************************************************************)
\* graph.find_edge(from, to): the positions of the edges from `from` to `to`
find_edge(tree, from, to) ==
    {i \in DOMAIN tree.graph.edges :
        tree.graph.edges[i].from = from /\ tree.graph.edges[i].to = to}

\* statistics StateTree::add_edge: one more hit on the edge of the pair, or a new edge
statistics_add_edge(tree, from, to, t) ==
    IF find_edge(tree, from, to) # {}
    THEN LET existing_edge == CHOOSE i \in find_edge(tree, from, to) :
                                 \A j \in find_edge(tree, from, to) : i <= j
         IN  [tree EXCEPT !.graph.edges[existing_edge].hits = saturating_add(@, 1),
                          !.total_edge_hits = saturating_add(@, 1)]
    ELSE [tree EXCEPT !.graph.edges =
                         Append(@, [from |-> from, to |-> to, transition |-> t, hits |-> 1])]

\* Integrator::apply_logs: per transition add_node(&executor.state), then
\* transition.apply(..)?, then add_edge(current, new_node, transition)
RECURSIVE apply_logs(_, _, _, _)
apply_logs(tree, current, st, logs) ==
    IF logs = <<>>
    THEN [outcome |-> "Ok", tree |-> tree, current_node |-> current, state |-> st]
    ELSE LET t == Head(logs)
             added == statistics_add_node(tree, st)
             applied == apply(t, st)
         IN  IF applied.outcome # "Ok"
             THEN [outcome |-> applied.outcome, tree |-> added.tree,
                   current_node |-> current, state |-> applied.state]
             ELSE apply_logs(statistics_add_edge(added.tree, current, added.index, t),
                             added.index, applied.state, Tail(logs))

\* petgraph::algo::astar(&graph, root, |finish| finish == node, |_| 1, |_| 0):
\* a shortest path from the root, found level by level; paths holds one path
\* per node of the current level
RECURSIVE astar(_, _, _, _)
astar(tree, node, paths, seen) ==
    IF \E p \in paths : p[Len(p)] = node
    THEN Some(CHOOSE p \in paths : p[Len(p)] = node)
    ELSE IF paths = {} THEN None
    ELSE LET next == {e.to : e \in {tree.graph.edges[i] : i \in DOMAIN tree.graph.edges}} \ seen
             reached == {n \in next : \E p \in paths : find_edge(tree, p[Len(p)], n) # {}}
             extended == {Append(CHOOSE p \in paths : find_edge(tree, p[Len(p)], n) # {}, n) :
                             n \in reached}
         IN  astar(tree, node, extended, seen \cup reached)

\* resolve_state: the transitions of the path's edges applied in turn to a
\* copy of the initial state; None when an edge is missing or apply fails
RECURSIVE replay_path(_, _, _, _)
replay_path(tree, path, i, st) ==
    IF i >= Len(path) THEN Some(st)
    ELSE LET found == find_edge(tree, path[i], path[i + 1])
         IN  IF found = {} THEN None
             ELSE LET edge == tree.graph.edges[CHOOSE e \in found : \A j \in found : e <= j]
                      applied == apply(edge.transition, st)
                  IN  IF applied.outcome # "Ok" THEN None
                      ELSE replay_path(tree, path, i + 1, applied.state)

\* StateTree::resolve_state(node)
resolve_state(tree, node) ==
    LET found == astar(tree, node, {<<tree.root>>}, {tree.root})
    IN  IF IsSome(found) THEN replay_path(tree, Unwrap(found), 1, tree.initial_state)
        ELSE Some(tree.initial_state)

\* statistics run_combat for a party of one group: the log of a combat whose
\* initiative rolls are the given totals
CombatLog(initial, rolls) ==
    <<BeginCombat>> \o [i \in 1 .. Len(rolls) |-> InitiativeRoll(i, rolls[i])] \o <<EndCombat>>

\* the combats merged before resolve_state is called: initial state and, per
\* combat, the initiative totals
ResolveInputs ==
    {[initial |-> EmptyState, combats |-> c] : c \in {<<>>, << <<>> >>}} \cup
    {[initial |-> SoloState, combats |-> c] :
        c \in {<<>>, << <<1>> >>, << <<20>> >>, << <<1>>, <<20>> >>, << <<20>>, <<20>> >>}}

\* StateTree::new(initial_state), then run_combat's apply_logs per combat
RECURSIVE RunCombats(_, _)
RunCombats(initial, combats) ==
    IF combats = <<>> THEN statistics_StateTree_new(initial)
    ELSE LET before == RunCombats(initial, SubSeq(combats, 1, Len(combats) - 1))
         IN  apply_logs(before, before.root, initial,
                        CombatLog(initial, combats[Len(combats)])).tree

\* a tree is built by the statistics Integrator and resolve_state is called
\* for every node index up to the first one that is not in the graph
ResolveCall ==
    /\ driver = "unit" /\ pc = "new"
    /\ apply_call = NoCall /\ roll_call = NoCall /\ tree_call = NoCall
    /\ \E input \in ResolveInputs :
         LET tree == RunCombats(input.initial, input.combats)
         IN  tree_call' = [op |-> "resolve", tree |-> tree,
                           resolved |-> [n \in 0 .. Len(tree.graph.nodes) |->
                                            resolve_state(tree, n)]]
    /\ UNCHANGED <<driver, debug_assertions, overflow_checks, apply_call, roll_call, initial_state,
                   min_combats, combats_run, state_tree, state, current_node, pc,
                   initiative_rolls, current_actor_id, action_type, pending, combat_result,
                   run_result, panicked, progress_tx, last_reported, result_tx, calls,
                   visit_args, recorded, node_calls, edge_calls, ended, divergence,
                   last_merged, trial_log, trial_new, failed_trial, trial_errors, api_calls, query_call, visited_by, hook_log, rerun>>

(***************************************************************************)
(* Direct calls of Transition::apply and RollPlan::roll                    *)
(***************************************************************************)
\* an actor of a state handed to apply
UnitActor(id, initiative, used) ==
    [Actor(id, id % 2, 10, {}, {}) EXCEPT !.initiative = initiative, !.action_used = used]

UnitInitiatives == {None, Some(0), Some(1)}

\* the actor maps of the states handed to apply: ids 1 .. k, every choice of
\* recorded initiatives, the first actor with or without its action spent
UnitActorMaps(k) ==
    {[a \in 1 .. k |-> UnitActor(a, ini[a], used /\ a = 1)] :
        ini \in [1 .. k -> UnitInitiatives], used \in BOOLEAN}

\* initiative orders over ids 1 .. k: none yet, ascending, descending
UnitOrders(k) ==
    {<<>>, [i \in 1 .. k |-> i], [i \in 1 .. k |-> k + 1 - i]}

UnitIndexes(order) == {None, Some(0)} \cup {Some(i) : i \in 0 .. Len(order) - 1}

\* the states handed to apply that hold the actors 1 .. k
ApplyStatesOf(k) ==
    UNION {{[State_new(actors, (1 :> BrokenSword)) EXCEPT
                !.turn = turn, !.initiative_order = order, !.current_turn_index = index] :
              actors \in UnitActorMaps(k), turn \in {0, 1}, index \in UnitIndexes(order)} :
           order \in UnitOrders(k)}

ApplyStates == UNION {ApplyStatesOf(k) : k \in 0 .. MaxUnitActors}

\* the actor ids named by the transitions handed to apply; the last one is
\* the id of no actor
UnitTargets == 1 .. (MaxUnitActors + 1)

\* the transitions handed to apply
ApplyTransitions ==
    {Root, BeginCombat, EndCombat, AdvanceInitiative}
    \cup {InitiativeRoll(a, r) : a \in UnitTargets, r \in {-1, 0, 2}}
    \cup {BeginTurn(a) : a \in UnitTargets}
    \cup {EndTurn(a) : a \in UnitTargets}
    \cup {HealthModification(a, -1) : a \in UnitTargets}
    \cup {StatModification(a, "strength", d) : a \in UnitTargets, d \in {-11, -1, 1}}
    \cup {ActionEconomyUsed(a, u) : a \in UnitTargets, u \in {"Action", "BonusAction"}}

\* transition.apply(&mut state) called directly on a state
ApplyCall ==
    /\ driver = "unit" /\ pc = "new"
    /\ apply_call = NoCall /\ roll_call = NoCall /\ tree_call = NoCall
    /\ \E before \in ApplyStates : \E t \in ApplyTransitions :
         LET result == apply(t, before)
         IN  apply_call' = [op |-> "apply", t |-> t, before |-> before,
                            outcome |-> result.outcome, after |-> result.state]
    /\ UNCHANGED <<driver, debug_assertions, overflow_checks, roll_call, initial_state,
                   min_combats, combats_run, state_tree, state, current_node, pc,
                   initiative_rolls, current_actor_id, action_type, pending, combat_result,
                   run_result, panicked, progress_tx, last_reported, result_tx, calls,
                   visit_args, recorded, node_calls, edge_calls, ended, divergence,
                   last_merged, trial_log, trial_new, failed_trial, trial_errors, api_calls, query_call, visited_by, hook_log, rerun, tree_call>>

\* the settings of the plans handed to roll: none, a clamp to 3 ..= 5, a
\* reroll floor of 3, a reroll floor of 7 (above a d6), a clamp with min > max
RollSettingsSet ==
    {[advantage |-> adv, minimum_die_value |-> s[1], maximum_die_value |-> s[2],
      reroll_dice_below |-> s[3]] :
        adv \in {"Normal", "Advantage", "Disadvantage"},
        s \in {<<None, None, None>>, <<Some(3), Some(5), None>>, <<None, None, Some(3)>>,
                <<None, None, Some(7)>>, <<Some(6), Some(5), None>>}}

\* the plans handed to roll
RollPlans ==
    {[num_dice |-> n, die_size |-> size, modifier |-> mod, settings |-> settings] :
        n \in 0 .. 2, size \in {6, 20}, mod \in {0, 3}, settings \in RollSettingsSet}

\* the faces Roller::roll(min, max) hands to a direct call: the two lowest of
\* the range, the highest, and the FaceSamples faces below the highest
RollFaces(min, max) == {f \in min .. max : f <= min + 1 \/ f >= max - FaceSamples}

\* the armor classes a result is tested against: below, within and above the
\* totals of the plans
ArmorClasses == {0, 10, 50}

\* plan.roll(&mut rng) called directly, followed by result.meets_dc(dc); the
\* faces the Roller hands out for the first and the second normal-mode roll
\* are inputs
RollCall ==
    /\ driver = "unit" /\ pc = "new"
    /\ apply_call = NoCall /\ roll_call = NoCall /\ tree_call = NoCall
    /\ \E plan \in RollPlans :
         IF roll_normal_panics(plan)
         THEN roll_call' = [op |-> "roll", plan |-> plan, outcome |-> "Panic"]
         ELSE LET F == FaceSeqs(plan.num_dice,
                                RollFaces(UnwrapOr(plan.settings.reroll_dice_below, 1),
                                          plan.die_size))
              IN  \E sampled1 \in F : \E sampled2 \in F : \E dc \in ArmorClasses :
                    LET first_roll == roll_normal_result(plan, sampled1)
                        second_roll == roll_normal_result(plan, sampled2)
                        mode == plan.settings.advantage
                        result == CASE mode = "Normal" -> first_roll
                                    [] mode = "Advantage" ->
                                         roll_advantage_result(first_roll, second_roll)
                                    [] mode = "Disadvantage" ->
                                         roll_disadvantage_result(first_roll, second_roll)
                    IN  /\ mode = "Normal" => sampled2 = sampled1
                        /\ roll_call' =
                              [op |-> "roll", plan |-> plan, outcome |-> "Ok",
                               sampled |-> <<sampled1, sampled2>>,
                               first_roll |-> first_roll, second_roll |-> second_roll,
                               result |-> result,
                               dc |-> dc, met |-> meets_dc(result, dc)]
    /\ UNCHANGED <<driver, debug_assertions, overflow_checks, apply_call, initial_state,
                   min_combats, combats_run, state_tree, state, current_node, pc,
                   initiative_rolls, current_actor_id, action_type, pending, combat_result,
                   run_result, panicked, progress_tx, last_reported, result_tx, calls,
                   visit_args, recorded, node_calls, edge_calls, ended, divergence,
                   last_merged, trial_log, trial_new, failed_trial, trial_errors, api_calls, query_call, visited_by, hook_log, rerun, tree_call>>

Next ==
    \/ ApplyCall \/ RollCall \/ RoundTripCall \/ ResolveCall
    \/ ApiNewTree \/ ApiNewContext \/ ApiTransition \/ Visit \/ Query \/ RunAgain
    \/ RunStart \/ RunCombat \/ RunCombatReturned \/ RunReturnsOk \/ RunCalledAgain
    \/ SpawnIntegrator \/ WorkerRunCombat \/ WorkerCombatReturned \/ WorkerSendsResults
    \/ BeginCombatStep \/ InitiativeRollStep \/ EndCombatStep \/ RecordCombat
    \/ AdvanceInitiativeStep \/ BeginTurnStep \/ ActionStep \/ HealthModificationStep
    \/ EndTurnStep

Spec == Init /\ [][Next]_vars

(***************************************************************************)
(* Properties of the state tree                                            *)
(***************************************************************************)
\* C1: add_node deduplicates by hash.  The cache maps exactly the hashes handed
\* to add_node onto the node indices, and node_count is the number of distinct
\* hashes (so no two indices carry the same hash); the hit counter of a hash's
\* node is the number of add_node calls made with that hash, at least 1 and
\* saturated at the maximum; and the index add_node returned for the live
\* state is that state's node.
C1_AddNodeDeduplicates ==
    LET tree == state_tree
        cache == tree.state_cache
    IN  /\ DOMAIN cache = DOMAIN node_calls
        /\ {cache[h] : h \in DOMAIN cache} = NodeIndices(tree)
        /\ node_count(tree) = Cardinality(DOMAIN node_calls)
        /\ \A h \in DOMAIN cache :
               get_node_hits(tree, cache[h]) = Some(Min(node_calls[h], HitsMax))
        /\ \A i \in NodeIndices(tree) : tree.nodes[i + 1] >= 1 /\ tree.nodes[i + 1] <= HitsMax
        /\ (~panicked /\ pc # "new") => current_node = cache[hash_state(state)]

\* a hash was handed to add_node more often than the counter can count, in a
\* tree of several nodes
C1_Witness ==
    /\ node_count(state_tree) >= 2
    /\ \E h \in DOMAIN node_calls : node_calls[h] = HitsMax + 1

TargetsOf(tree, from) == {key[2] : key \in {k \in DOMAIN tree.edge_cache : k[1] = from}}

\* C2: at most one edge per ordered (from, to) pair.  The edges are exactly the
\* pairs add_edge was called for, each pair has exactly one adjacency entry
\* under its source (and no pair without an edge has any), and as long as every
\* repeated call carried the stored transition an edge's hit counter is the
\* number of calls for its pair, the first call giving 1.
C2_OneEdgePerPair ==
    LET tree == state_tree
    IN  /\ DOMAIN tree.edge_cache = DOMAIN edge_calls
        /\ edge_count(tree) = Cardinality(DOMAIN edge_calls)
        /\ \A key \in DOMAIN tree.edge_cache :
               key[1] \in NodeIndices(tree) /\ key[2] \in NodeIndices(tree)
        /\ \A from \in NodeIndices(tree) :
               LET adjacent == neighbors(tree, from)
               IN  /\ {adjacent[i] : i \in DOMAIN adjacent} = TargetsOf(tree, from)
                   /\ Len(adjacent) = Cardinality(TargetsOf(tree, from))
        /\ ~divergence =>
               \A key \in DOMAIN edge_calls :
                   tree.edge_cache[key].hits = Min(edge_calls[key], HitsMax)

\* add_edge was called again for a pair, with the stored transition, in a tree
\* of several edges
C2_Witness ==
    /\ ~divergence
    /\ edge_count(state_tree) >= 2
    /\ \E key \in DOMAIN edge_calls : edge_calls[key] >= 2

\* C3: an add_edge call whose transition differs from the one stored for the
\* pair is reported as a failure (the call does not return normally), also
\* when debug assertions are compiled out.
C3_DivergenceIsReported == divergence => panicked

\* C4: in the trials run by Integrator::run or by the GUI worker,
\* CombatContext::transition never hands add_edge a transition that differs
\* from the one stored for the node pair.
C4_TrialsNeverDiverge == driver \in {"run", "gui"} => ~divergence

\* C5: replay-correctness.  The root carries the initial state; for every edge,
\* applying its stored transition to the state recorded at its source succeeds
\* and gives the state recorded at its target (so every root-to-node path
\* replays to the recorded state); the live state is the one recorded at the
\* current node; and every state visit_states hands to the visitor is the state
\* recorded at the visited node.
C5_ReplayReproducesRecordedStates ==
    LET tree == state_tree
    IN  /\ pc # "new" => (tree.root \in DOMAIN recorded /\ recorded[tree.root] = initial_state)
        /\ \A key \in DOMAIN tree.edge_cache :
               /\ key[1] \in DOMAIN recorded /\ key[2] \in DOMAIN recorded
               /\ LET replayed == apply(tree.edge_cache[key].transition, recorded[key[1]])
                  IN  replayed.outcome = "Ok" /\ replayed.state = recorded[key[2]]
        /\ (~panicked /\ pc # "new") => recorded[current_node] = state
        /\ \A i \in DOMAIN calls : calls[i].state = recorded[calls[i].node]
        /\ pc = "visited" => ~panicked

\* a traversal replayed at least two edges in a tree where some node is
\* entered from two different nodes
C5_Witness ==
    /\ pc = "visited" /\ Len(calls) >= 3
    /\ \E k1 \in DOMAIN state_tree.edge_cache : \E k2 \in DOMAIN state_tree.edge_cache :
          k1[2] = k2[2] /\ k1[1] # k2[1]

\* C6: once the visitor has returned false, visit_states does not invoke it
\* again: an invocation at a node where it returns false is the last one.
C6_FalseStopsTraversal ==
    \A i \in DOMAIN calls : calls[i].node \in visit_args.stop => i = Len(calls)

Successors(tree, S) == {key[2] : key \in {k \in DOMAIN tree.edge_cache : k[1] \in S}}

RECURSIVE ReachableFrom(_, _)
ReachableFrom(tree, S) ==
    LET next == S \cup Successors(tree, S)
    IN  IF next = S THEN S ELSE ReachableFrom(tree, next)

HasOutgoingEdge(tree, n) == \E k \in DOMAIN tree.edge_cache : k[1] = n

\* C7: with a visitor that always returns true, visit_states(false) invokes it
\* exactly once for every node reachable from the root and visit_states(true)
\* exactly once for every reachable node without outgoing edge, each time with
\* the node's hit count; the traversal ends, also on cycles and self-loops.
C7_VisitsEachReachableNodeOnce ==
    (pc = "visited" /\ visit_args.stop = {}) =>
        LET tree == state_tree
            reachable == ReachableFrom(tree, {tree.root})
            expected == IF visit_args.externals_only
                        THEN {n \in reachable : ~HasOutgoingEdge(tree, n)}
                        ELSE reachable
        IN  /\ ~panicked
            /\ {calls[i].node : i \in DOMAIN calls} = expected
            /\ Len(calls) = Cardinality(expected)
            /\ \A i \in DOMAIN calls : calls[i].hits = tree.nodes[calls[i].node + 1]

\* a leaves-only traversal called the visitor in a tree where a reachable node
\* carries a self-loop
C7_Witness ==
    /\ pc = "visited" /\ visit_args.stop = {} /\ visit_args.externals_only
    /\ Len(calls) >= 1
    /\ \E n \in ReachableFrom(state_tree, {state_tree.root}) :
          EdgeKey(n, n) \in DOMAIN state_tree.edge_cache

(***************************************************************************)
(* Properties of the combat loop                                           *)
(***************************************************************************)
LivingGroups(s) == {s.actors[a].group : a \in {x \in ActorIds(s) : s.actors[x].health > 0}}

\* C8: is_combat_over is true exactly when at most one group has a living
\* member (an actor with health > 0).
C8_CombatOverIffOneLivingGroup ==
    is_combat_over(state) <=> Cardinality(LivingGroups(state)) <= 1

\* C9: Integrator::run returns Ok only with combats_run >= min_combats; the
\* counter equals the number of merged EndCombat transitions (it lags by one
\* only between that merge and record_combat); after a combat returned an
\* error no further combat is started, the counter is not incremented and run
\* returns the error.
C9_RunCountsCompletedCombats ==
    driver = "run" =>
        /\ run_result = "Ok" => (combats_run >= min_combats /\ trial_errors = 0)
        /\ combats_run = IF pc = "record" THEN ended - 1 ELSE ended
        /\ trial_errors <= 1
        /\ trial_errors = 1 =>
               /\ combat_result = "Err"
               /\ pc \in {"returned", "done"}
               /\ pc = "done" => run_result = "Err"
        /\ run_result = "Err" => (trial_errors = 1 /\ combats_run < min_combats)

\* run returned the error of a combat
C9_Witness ==
    driver = "run" /\ run_result = "Err" /\ pc = "done" /\ combats_run < min_combats

CombatPositions ==
    {"begin_combat", "initiative", "advance", "begin_turn", "act", "health", "end_turn",
     "record"}

\* C10: in the GUI worker loop no combat is run after a combat returned an
\* error, and what a failed combat merged is not part of a tree that is sent.
C10_FailedTrialIsSurfaced ==
    driver = "gui" =>
        /\ trial_errors > 0 => pc \notin CombatPositions
        /\ \A i \in DOMAIN result_tx :
               /\ failed_trial.nodes \cap NodeIndices(result_tx[i].state_tree) = {}
               /\ failed_trial.edges \cap DOMAIN result_tx[i].state_tree.edge_cache = {}

RECURSIVE Ascending(_)
Ascending(ids) ==
    IF ids = {} THEN <<>>
    ELSE LET least == CHOOSE a \in ids : \A b \in ids : a <= b
         IN  <<least>> \o Ascending(ids \ {least})

\* run_combat has merged its EndCombat and is about to return, or has returned, Ok
CombatCompleted == pc = "record" \/ (pc = "returned" /\ combat_result = "Ok")

\* C11: the transitions one combat of Integrator::run / the GUI worker merges
\* are BeginCombat, then one InitiativeRoll per actor in ascending actor id,
\* then turn blocks that each begin with AdvanceInitiative, then EndCombat;
\* nothing is merged after EndCombat, a completed combat ends with it, and a
\* combat begins at the root node with a state equal to the initial state.
C11_CombatTransitionOrder ==
    driver \in {"run", "gui"} =>
        LET order == Ascending(ActorIds(initial_state))
            n == Len(order)
            log == trial_log
        IN  /\ Len(log) >= 1 => log[1] = BeginCombat
            /\ \A i \in DOMAIN log :
                   /\ (i >= 2 /\ i <= n + 1) =>
                          (log[i].type = "InitiativeRoll" /\ log[i].actor = order[i - 1])
                   /\ i > 1 => log[i] # BeginCombat
                   /\ i > n + 1 => log[i].type # "InitiativeRoll"
                   /\ i = n + 2 => log[i] \in {AdvanceInitiative, EndCombat}
                   /\ log[i].type = "BeginTurn" => log[i - 1] = AdvanceInitiative
                   /\ (log[i].type = "EndTurn" /\ i < Len(log)) =>
                          log[i + 1] \in {AdvanceInitiative, EndCombat}
                   /\ log[i] = EndCombat => i = Len(log)
            /\ CombatCompleted => (Len(log) >= n + 2 /\ log[Len(log)] = EndCombat)
            /\ (Len(log) >= 1 /\ log[Len(log)] = EndCombat) =>
                   pc \notin CombatPositions \ {"record"}
            /\ pc = "begin_combat" =>
                   /\ log = <<>>
                   /\ current_node = state_tree.root
                   /\ state = initial_state
                   /\ state = state_tree.initial_state

\* a further combat begins at the root after a completed combat whose
\* EndCombat led to a node other than the root
C11_Witness ==
    /\ driver \in {"run", "gui"}
    /\ pc = "begin_combat" /\ combats_run >= 1
    /\ \E key \in DOMAIN state_tree.edge_cache :
          state_tree.edge_cache[key].transition = EndCombat /\ key[2] # state_tree.root

\* C12: an actor that AdvanceInitiative makes current while unconscious or
\* dead gets no turn: BeginTurn is only about to be merged, and a turn is only
\* running, for an actor with health > 0 at the turn's start, so every
\* BeginTurn{a} edge of the tree leaves a state in which a has health > 0, and
\* such an edge enters a node whose state still has a's health > 0.
C12_DownedActorsAreSkipped ==
    driver \in {"run", "gui"} =>
        /\ pc = "begin_turn" =>
               /\ current_actor_id \in ActorIds(state)
               /\ state.actors[current_actor_id].health > 0
               /\ ~is_unconscious(state.actors[current_actor_id])
               /\ ~is_dead(state.actors[current_actor_id])
               /\ last_merged = AdvanceInitiative
        /\ \A key \in DOMAIN state_tree.edge_cache :
               LET t == state_tree.edge_cache[key].transition
               IN  t.type = "BeginTurn" =>
                      /\ recorded[key[1]].actors[t.actor].health > 0
                      /\ recorded[key[2]].actors[t.actor].health > 0
        /\ \A i \in DOMAIN trial_log :
               (trial_log[i] = AdvanceInitiative /\ i < Len(trial_log)) =>
                   \/ trial_log[i + 1].type = "BeginTurn"
                   \/ trial_log[i + 1] \in {AdvanceInitiative, EndCombat}

\* AdvanceInitiative made an actor with health <= 0 current and the loop is
\* back at its head without having merged anything for that actor
C12_Witness ==
    /\ driver \in {"run", "gui"}
    /\ pc = "advance" /\ last_merged = AdvanceInitiative
    /\ IsSome(state.current_turn_index)
    /\ LET id == state.initiative_order[Unwrap(state.current_turn_index) + 1]
       IN  state.actors[id].health <= 0

(***************************************************************************)
(* Properties of Transition::apply                                         *)
(***************************************************************************)
\* the variants that name a target actor
TargetedTypes ==
    {"InitiativeRoll", "BeginTurn", "HealthModification", "StatModification",
     "ActionEconomyUsed"}

\* C13: apply returns a failure when the transition names a target actor
\* that is not in the state; it never returns success for such a transition.
C13_MissingTargetFails ==
    (/\ apply_call.op = "apply"
     /\ apply_call.t.type \in TargetedTypes
     /\ apply_call.t.actor \notin ActorIds(apply_call.before))
        => apply_call.outcome # "Ok"

\* what C14 says about one call of apply(AdvanceInitiative)
AdvanceInitiativeRotates ==
    (apply_call.op = "apply" /\ apply_call.t = AdvanceInitiative) =>
        LET before == apply_call.before
            after == apply_call.after
            n == Len(before.initiative_order)
        IN  /\ (IsSome(before.current_turn_index) /\ n > 0) =>
                   LET next_index == (Unwrap(before.current_turn_index) + 1) % n
                   IN  /\ apply_call.outcome = "Ok"
                       /\ after.current_turn_index = Some(next_index)
                       /\ after.turn = before.turn + (IF next_index = 0 THEN 1 ELSE 0)
            /\ ~IsSome(before.current_turn_index) =>
                   /\ apply_call.outcome = "Ok"
                   /\ after.current_turn_index = Some(0)
                   /\ after.turn = before.turn
            /\ after.actors = before.actors
            /\ after.items = before.items
            /\ after.initiative_order = before.initiative_order

\* C14: AdvanceInitiative on index Some(i) and an order of length n > 0 sets
\* the index to (i + 1) mod n and adds one to the turn counter exactly when the
\* new index is 0; on index None it sets Some(0) and keeps the turn counter;
\* actors, items and the order are unchanged.  In the combats of
\* Integrator::run and of the GUI worker AdvanceInitiative is never applied
\* while the initiative order is empty, and its application never panics.
C14_AdvanceInitiativeRotates ==
    /\ []AdvanceInitiativeRotates
    /\ [][(driver \in {"run", "gui"} /\ AdvanceInitiativeStep) =>
             (Len(state.initiative_order) > 0 /\ (panicked' => divergence'))]_vars

\* apply(AdvanceInitiative) wrapped from the last position of an order of
\* several actors to position 0 and counted the turn
C14_Witness ==
    /\ apply_call.op = "apply" /\ apply_call.t = AdvanceInitiative
    /\ Len(apply_call.before.initiative_order) >= 2
    /\ apply_call.before.current_turn_index =
           Some(Len(apply_call.before.initiative_order) - 1)
    /\ apply_call.after.current_turn_index = Some(0)
    /\ apply_call.after.turn = apply_call.before.turn + 1

\* C15: after apply(InitiativeRoll{actor, roll}) the named actor's initiative
\* is roll, and initiative_order lists every actor id exactly once, by
\* descending initiative with a missing roll counting as 0 and equal values in
\* ascending actor-id order (so the order is a function of the input state).
C15_InitiativeOrderIsSorted ==
    (apply_call.op = "apply" /\ apply_call.t.type = "InitiativeRoll") =>
        LET before == apply_call.before
            after == apply_call.after
            order == after.initiative_order
            value(a) == UnwrapOr(after.actors[a].initiative, 0)
        IN  /\ apply_call.outcome = "Ok"
            /\ apply_call.t.actor \in ActorIds(before) =>
                   after.actors[apply_call.t.actor].initiative = Some(apply_call.t.amount)
            /\ ActorIds(after) = ActorIds(before)
            /\ \A a \in ActorIds(before) \ {apply_call.t.actor} :
                   after.actors[a] = before.actors[a]
            /\ Len(order) = Cardinality(ActorIds(after))
            /\ {order[i] : i \in DOMAIN order} = ActorIds(after)
            /\ \A i \in DOMAIN order : \A j \in DOMAIN order :
                   i < j => \/ value(order[i]) > value(order[j])
                            \/ value(order[i]) = value(order[j]) /\ order[i] < order[j]

\* a roll was recorded for one of several actors, the order changed, and two
\* actors tie on their initiative value
C15_Witness ==
    /\ apply_call.op = "apply" /\ apply_call.t.type = "InitiativeRoll"
    /\ apply_call.t.actor \in ActorIds(apply_call.before)
    /\ Cardinality(ActorIds(apply_call.after)) >= 2
    /\ apply_call.after.initiative_order # apply_call.before.initiative_order
    /\ \E a \in ActorIds(apply_call.after) : \E b \in ActorIds(apply_call.after) :
          /\ a # b
          /\ UnwrapOr(apply_call.after.actors[a].initiative, 0)
                = UnwrapOr(apply_call.after.actors[b].initiative, 0)

\* C16: apply(EndCombat) sets turn to 0, current_turn_index to None,
\* initiative_order to empty and every actor's initiative to None, the values
\* of a state built by State::new and add_actor, and changes nothing else:
\* the same actors with every other field as before, and the same items.
C16_EndCombatResetsBookkeeping ==
    (apply_call.op = "apply" /\ apply_call.t = EndCombat) =>
        LET before == apply_call.before
            after == apply_call.after
            fresh == State_new(after.actors, after.items)
        IN  /\ apply_call.outcome = "Ok"
            /\ after.turn = 0 /\ after.turn = fresh.turn
            /\ after.current_turn_index = None
            /\ after.current_turn_index = fresh.current_turn_index
            /\ after.initiative_order = <<>>
            /\ after.initiative_order = fresh.initiative_order
            /\ ActorIds(after) = ActorIds(before)
            /\ \A a \in ActorIds(after) :
                   /\ after.actors[a].initiative = None
                   /\ after.actors[a].initiative = Actor(a, 0, 10, {}, {}).initiative
                   /\ after.actors[a] = [before.actors[a] EXCEPT !.initiative = None]
            /\ after.items = before.items

\* EndCombat was applied to a state in the middle of a combat: a counted turn,
\* an order, a current index, a recorded roll and a spent action
C16_Witness ==
    /\ apply_call.op = "apply" /\ apply_call.t = EndCombat
    /\ apply_call.before.turn > 0
    /\ Len(apply_call.before.initiative_order) >= 2
    /\ IsSome(apply_call.before.current_turn_index)
    /\ \E a \in ActorIds(apply_call.before) :
          IsSome(apply_call.before.actors[a].initiative)
    /\ \E a \in ActorIds(apply_call.before) : apply_call.before.actors[a].action_used
    /\ apply_call.after.items # <<>>

(***************************************************************************)
(* Properties of the dice engine                                           *)
(***************************************************************************)
\* C17: meets_dc is true for every critical success and false for every
\* critical failure, whatever total and dc are, and otherwise true exactly
\* when total >= dc.
C17_MeetsDcHonoursCriticals ==
    (roll_call.op = "roll" /\ roll_call.outcome = "Ok") =>
        LET result == roll_call.result
        IN  /\ result.critical = "Success" => roll_call.met
            /\ result.critical = "Failure" => ~roll_call.met
            /\ result.critical = "None" => (roll_call.met <=> result.total >= roll_call.dc)

\* a critical success met a dc above its total
C17_Witness ==
    /\ roll_call.op = "roll" /\ roll_call.outcome = "Ok"
    /\ roll_call.result.critical = "Success"
    /\ roll_call.result.total < roll_call.dc
    /\ roll_call.met

\* the number of listed faces of a result that equal f
FacesEqual(result, f) ==
    Cardinality({i \in DOMAIN result.individual_rolls : result.individual_rolls[i] = f})

\* what C18 says about one normal-mode result of a plan
CriticalFlagOf(plan, result) ==
    LET twenties == FacesEqual(result, 20)
        ones == FacesEqual(result, 1)
    IN  /\ result.critical = "Success" <=> (plan.die_size = 20 /\ twenties > ones)
        /\ result.critical = "Failure" <=> (plan.die_size = 20 /\ ones > twenties)
        /\ result.critical \in {"Success", "Failure", "None"}
        /\ plan.die_size # 20 => result.critical = "None"

\* C18: the critical flag of a normal-mode roll is Success exactly when the
\* die size is 20 and the listed faces equal to 20 outnumber those equal to 1,
\* Failure exactly when the die size is 20 and the faces equal to 1 outnumber
\* those equal to 20, and None otherwise, in particular for every other die.
C18_CriticalByMajority ==
    (roll_call.op = "roll" /\ roll_call.outcome = "Ok") =>
        /\ CriticalFlagOf(roll_call.plan, roll_call.first_roll)
        /\ CriticalFlagOf(roll_call.plan, roll_call.second_roll)

\* a normal-mode roll of two d20 listed a 20 and a 1 and is not critical
C18_Witness ==
    /\ roll_call.op = "roll" /\ roll_call.outcome = "Ok"
    /\ roll_call.plan.settings.advantage = "Normal"
    /\ roll_call.plan.die_size = 20
    /\ FacesEqual(roll_call.result, 20) = 1 /\ FacesEqual(roll_call.result, 1) = 1
    /\ roll_call.result.critical = "None"

\* C19: an advantage roll returns one of its two normal-mode sub-rolls: a
\* critical success if either sub-roll is one, otherwise the one with the
\* higher total, the first on a tie.  A disadvantage roll returns a critical
\* failure if either sub-roll is one, otherwise the one with the lower total,
\* the first on a tie.
C19_AdvantageKeepsBetterRoll ==
    (roll_call.op = "roll" /\ roll_call.outcome = "Ok") =>
        LET first == roll_call.first_roll
            second == roll_call.second_roll
            result == roll_call.result
            mode == roll_call.plan.settings.advantage
        IN  /\ result \in {first, second}
            /\ mode = "Advantage" =>
                   IF first.critical = "Success" \/ second.critical = "Success"
                   THEN result.critical = "Success"
                   ELSE /\ result.total >= first.total /\ result.total >= second.total
                        /\ first.total = second.total => result = first
            /\ mode = "Disadvantage" =>
                   IF first.critical = "Failure" \/ second.critical = "Failure"
                   THEN result.critical = "Failure"
                   ELSE /\ result.total <= first.total /\ result.total <= second.total
                        /\ first.total = second.total => result = first

\* an advantage roll returned its second sub-roll, a critical success, although
\* the first sub-roll has the higher total
C19_Witness ==
    /\ roll_call.op = "roll" /\ roll_call.outcome = "Ok"
    /\ roll_call.plan.settings.advantage = "Advantage"
    /\ roll_call.second_roll.critical = "Success"
    /\ roll_call.first_roll.critical = "None"
    /\ roll_call.first_roll.total > roll_call.second_roll.total
    /\ roll_call.result = roll_call.second_roll

\* what C20 says about one normal-mode result and the faces sampled for it
NormalRollOf(plan, sampled, result) ==
    LET low == UnwrapOr(plan.settings.reroll_dice_below, 1)
        clamp_min == UnwrapOr(plan.settings.minimum_die_value, 1)
        clamp_max == UnwrapOr(plan.settings.maximum_die_value, plan.die_size)
        faces == result.individual_rolls
    IN  /\ Len(faces) = plan.num_dice
        /\ Len(sampled) = plan.num_dice
        /\ \A i \in DOMAIN faces :
               /\ sampled[i] >= low /\ sampled[i] <= plan.die_size
               /\ faces[i] >= clamp_min /\ faces[i] <= clamp_max
               /\ (sampled[i] >= clamp_min /\ sampled[i] <= clamp_max) => faces[i] = sampled[i]
               /\ sampled[i] < clamp_min => faces[i] = clamp_min
               /\ sampled[i] > clamp_max => faces[i] = clamp_max
        /\ result.total = SumSeq(faces) + plan.modifier
        /\ result.total >= plan.num_dice * clamp_min + plan.modifier
        /\ result.total <= plan.num_dice * clamp_max + plan.modifier

\* the plan NdS+M with the given clamp and reroll settings, in normal mode
PlanOf(n, size, mod, lo, hi, floor) ==
    [num_dice |-> n, die_size |-> size, modifier |-> mod,
     settings |-> [advantage |-> "Normal", minimum_die_value |-> lo,
                   maximum_die_value |-> hi, reroll_dice_below |-> floor]]

\* C20: a normal-mode roll of N dice of size S with modifier M lists exactly
\* N faces, each the clamp to [minimum_die_value or 1, maximum_die_value or S]
\* of a value sampled from [reroll_dice_below or 1, S], and its total is the
\* sum of the listed faces plus M: 2d6+3 totals lie in 5 .. 15, 1d6 with a
\* reroll floor of 3 in 3 .. 6, 1d6 clamped to 3 ..= 5 in 3 .. 5.
C20_NormalRollFacesAndTotal ==
    (roll_call.op = "roll" /\ roll_call.outcome = "Ok") =>
        LET plan == roll_call.plan
            total == roll_call.result.total
        IN  /\ NormalRollOf(plan, roll_call.sampled[1], roll_call.first_roll)
            /\ NormalRollOf(plan, roll_call.sampled[2], roll_call.second_roll)
            /\ plan = PlanOf(2, 6, 3, None, None, None) => (total >= 5 /\ total <= 15)
            /\ plan = PlanOf(1, 6, 0, None, None, Some(3)) => (total >= 3 /\ total <= 6)
            /\ plan = PlanOf(1, 6, 0, Some(3), Some(5), None) => (total >= 3 /\ total <= 5)

\* 1d6 clamped to 3 ..= 5 sampled a 6 and lists a 5
C20_Witness ==
    /\ roll_call.op = "roll" /\ roll_call.outcome = "Ok"
    /\ roll_call.plan = PlanOf(1, 6, 0, Some(3), Some(5), None)
    /\ roll_call.sampled[1] = <<6>>
    /\ roll_call.result.individual_rolls = <<5>>
    /\ roll_call.result.total = 5

\* C21: RollPlan::roll never fails: for every plan with die_size >= 1,
\* whatever num_dice, modifier and settings are (a reroll floor above the die
\* size and a minimum clamp above the maximum clamp included), the call
\* returns a result, never an error or a panic.
C21_RollNeverFails ==
    (roll_call.op = "roll" /\ roll_call.plan.die_size >= 1) => roll_call.outcome = "Ok"

(***************************************************************************)
(* Properties of the outcome-probability query                             *)
(***************************************************************************)
\* the sum of the hit counters of the nodes in S
RECURSIVE SumOfHits(_, _)
SumOfHits(tree, S) ==
    IF S = {} THEN 0
    ELSE LET n == CHOOSE x \in S : TRUE
         IN  tree.nodes[n + 1] + SumOfHits(tree, S \ {n})

\* C22: the outcome-probability query returns the sum of the hit counts of
\* the visited nodes whose resolved state satisfies the predicate, divided by
\* the sum of the hit counts of all visited nodes, the visited nodes being
\* the reachable leaves or all reachable nodes as the flag says; it returns
\* 0.0 when the total is zero; the numerator never exceeds the denominator;
\* and for the always-true predicate over leaves with a total above zero the
\* numerator equals the denominator (probability 1).
C22_QueryIsHitWeightedShare ==
    query_call.op = "query" =>
        LET tree == state_tree
            reachable == ReachableFrom(tree, {tree.root})
            visited == IF query_call.externals_only
                       THEN {n \in reachable : ~HasOutgoingEdge(tree, n)}
                       ELSE reachable
            satisfying == {n \in visited : condition(query_call.condition, recorded[n])}
            numerator == SumOfHits(tree, satisfying)
            denominator == SumOfHits(tree, visited)
        IN  /\ query_call.count = numerator
            /\ query_call.total_states = denominator
            /\ denominator = 0 => query_call.result = <<0, 1>>
            /\ denominator > 0 => query_call.result = <<numerator, denominator>>
            /\ query_call.result[1] <= query_call.result[2]
            /\ query_call.result[2] > 0
            /\ (query_call.condition = "always" /\ query_call.externals_only /\ denominator > 0)
                   => query_call.result[1] = query_call.result[2]

\* a query over all nodes found the predicate true at some visited nodes and
\* false at others, one of the visited nodes carrying more than one hit
C22_Witness ==
    /\ query_call.op = "query" /\ ~query_call.externals_only
    /\ query_call.count > 0 /\ query_call.count < query_call.total_states
    /\ query_call.total_states > node_count(state_tree)
    /\ query_call.result = <<query_call.count, query_call.total_states>>

(***************************************************************************)
(* Properties of the hit counters                                          *)
(***************************************************************************)
\* no combat is running and every combat run so far has completed
TrialsCompleted ==
    /\ driver \in {"run", "gui"} /\ pc \in {"loop", "done"}
    /\ ~panicked /\ trial_errors = 0

\* C23: after N completed trials merged by the Integrator every node's hit
\* counter is the number of trials that visited the node's state (counted up
\* to the value at which the counter saturates), and the root's hit counter
\* is N, every trial starting in the root state.
C23_HitsCountVisitingTrials ==
    (TrialsCompleted /\ combats_run >= 1) =>
        /\ \A n \in NodeIndices(state_tree) :
               /\ n \in DOMAIN visited_by.completed
               /\ state_tree.nodes[n + 1] = Min(visited_by.completed[n], HitsMax)
        /\ state_tree.nodes[state_tree.root + 1] = Min(combats_run, HitsMax)

\* two actors in two different groups, both alive
TwoOpposingSingles(s) ==
    /\ Cardinality(ActorIds(s)) = 2
    /\ Cardinality({s.actors[a].group : a \in ActorIds(s)}) = 2
    /\ \A a \in ActorIds(s) : is_alive(s.actors[a])

\* the nodes without outgoing edge
Leaves(tree) == {n \in NodeIndices(tree) : ~HasOutgoingEdge(tree, n)}

\* what C24 says about the tree after the one completed combat
OneCombatTree ==
    (/\ driver = "run" /\ TwoOpposingSingles(initial_state)
     /\ combats_run = 1 /\ pc \in {"returned", "loop", "done"}) =>
        /\ state_tree.nodes[state_tree.root + 1] = 1
        /\ \E key \in DOMAIN state_tree.edge_cache :
              state_tree.edge_cache[key].transition.type = "HealthModification"
        /\ Cardinality(Leaves(state_tree)) = 1
        /\ \A n \in Leaves(state_tree) : Cardinality(LivingGroups(recorded[n])) = 1

HookPhase(phase, actor, actions) == [phase |-> phase, actor |-> actor, actions |-> actions]

\* the phase after one more call c, "bad" if c is out of order in phase p
HookStep(p, c) ==
    CASE p.phase = "new" /\ c.hook = "on_integration_start" -> HookPhase("idle", 0, 0)
      [] p.phase = "idle" /\ c.hook = "on_combat_start" -> HookPhase("combat", 0, 0)
      [] p.phase = "idle" /\ c.hook = "on_integration_end" -> HookPhase("ended", 0, 0)
      [] p.phase = "combat" /\ c.hook = "on_turn_start" -> HookPhase("turn", c.actor, 0)
      [] p.phase = "combat" /\ c.hook = "on_combat_end" -> HookPhase("idle", 0, 0)
      [] p.phase = "turn" /\ c.hook = "on_action_executed" /\ p.actions < 2 ->
            HookPhase("turn", p.actor, p.actions + 1)
      [] p.phase = "turn" /\ c.hook = "on_turn_end" /\ c.actor = p.actor /\ p.actions = 2 ->
            HookPhase("combat", 0, 0)
      [] p.phase = "ended" /\ c.hook = "metrics" -> HookPhase("final", 0, 0)
      [] p.phase = "final" /\ c.hook = "on_integration_start" -> HookPhase("idle", 0, 0)
      [] OTHER -> HookPhase("bad", 0, 0)

RECURSIVE HookPhaseAfter(_)
HookPhaseAfter(log) ==
    IF log = <<>> THEN HookPhase("new", 0, 0)
    ELSE HookStep(HookPhaseAfter(SubSeq(log, 1, Len(log) - 1)), log[Len(log)])

CountHook(log, name) == Cardinality({i \in DOMAIN log : log[i].hook = name})

LastHook(log) == IF log = <<>> THEN HookCall("none", 0) ELSE log[Len(log)]

\* C25: during Integrator::run the hook calls come in order.  The log of calls
\* is on_integration_start once, then per combat on_combat_start ... on_combat_end
\* with the turns in between, each turn being on_turn_start(a), two
\* on_action_executed, on_turn_end(a); then on_integration_end once and only
\* then metrics.  on_combat_start and on_combat_end directly follow the merge
\* of BeginCombat and EndCombat, and the calls of a completed run hold one
\* on_combat_end per combat run.
C25_HookCallsAreOrdered ==
    driver = "run" =>
        LET p == HookPhaseAfter(hook_log)
        IN  /\ p.phase # "bad"
            /\ (pc = "new") <=> (hook_log = <<>>)
            /\ pc \in {"loop", "begin_combat", "record", "returned"} /\ combat_result # "Err"
                  => p.phase = "idle"
            /\ pc \in {"initiative", "advance", "begin_turn"} => p.phase = "combat"
            /\ pc \in {"act", "health"}
                  => p = HookPhase("turn", current_actor_id, IF action_type = "Action" THEN 0 ELSE 1)
            /\ pc = "end_turn" => p = HookPhase("turn", current_actor_id, 2)
            /\ last_merged = BeginCombat => LastHook(hook_log) = HookCall("on_combat_start", 0)
            /\ last_merged = EndCombat => LastHook(hook_log).hook \in {"on_combat_end", "metrics"}
            /\ last_merged.type = "BeginTurn"
                  => LastHook(hook_log) = HookCall("on_turn_start", last_merged.actor)
            /\ last_merged.type = "EndTurn"
                  => LastHook(hook_log) = HookCall("on_turn_end", last_merged.actor)
            /\ CountHook(hook_log, "on_combat_start") = ended + (IF p.phase \in {"combat", "turn"} THEN 1 ELSE 0)
            /\ CountHook(hook_log, "on_combat_end") = ended
            /\ (run_result = "Ok") <=> (p.phase = "final")
            /\ run_result = "Ok" => ended = combats_run

\* a turn was run to its end under Integrator::run: its four calls are logged
C25_Witness ==
    /\ driver = "run" /\ pc = "advance"
    /\ Len(hook_log) >= 6
    /\ LastHook(hook_log) = HookCall("on_turn_end", current_actor_id)
    /\ hook_log[Len(hook_log) - 1].hook = "on_action_executed"
    /\ hook_log[Len(hook_log) - 2].hook = "on_action_executed"
    /\ hook_log[Len(hook_log) - 3] = HookCall("on_turn_start", current_actor_id)

\* C26: every callback point of the Hook trait is invoked; after each
\* AdvanceInitiative transition that was merged, the last call on the hooks is
\* on_advance_initiative with the actor that became current.
C26_AdvanceInitiativeIsHooked ==
    (/\ driver \in {"run", "gui"}
     /\ last_merged = AdvanceInitiative
     /\ IsSome(state.current_turn_index))
        => LastHook(hook_log) =
              HookCall("on_advance_initiative",
                       state.initiative_order[Unwrap(state.current_turn_index) + 1])

(***************************************************************************)
(* Properties of the GUI worker thread                                     *)
(***************************************************************************)
\* C27: the worker spawned by spawn_integrator sends exactly one
\* IntegrationResults, after all of its progress messages; the progress values
\* are strictly increasing and at most 1.0 (completed <= total).  Stated for
\* the runs that have come to an end: a worker thread that is over, by leaving
\* its loop or by a panic, has sent its one result.
C27_WorkerSendsOneResult ==
    driver = "gui" =>
        /\ Len(result_tx) <= 1
        /\ \A i, j \in DOMAIN progress_tx : i < j => progress_tx[i] < progress_tx[j]
        /\ \A i \in DOMAIN progress_tx : progress_tx[i] <= min_combats
        /\ Len(result_tx) = 1 => pc \notin CombatPositions \cup {"loop", "returned"}
        /\ (pc \in {"done", "panicked"} \/ panicked) => Len(result_tx) = 1

(***************************************************************************)
(* Determinism of a run                                                    *)
(***************************************************************************)
\* the repeated run has taken as many steps as the run it repeats
Repeated == driver = "run" /\ rerun.phase = "second" /\ rerun.steps = rerun.first[1].steps

\* C28: two runs with the same initial state, the same min_combats and rollers
\* from the same seed build identical state trees: after the same number of
\* steps the second run has consumed the same roller values and holds the same
\* nodes in the same index order, the same edges with the same transitions and
\* the same node and edge hit counts as the first.
C28_SameSeedSameTree ==
    Repeated =>
        LET first == rerun.first[1]
        IN  /\ rerun.stream = first.stream
            /\ state_tree.nodes = first.state_tree.nodes
            /\ state_tree.state_cache = first.state_tree.state_cache
            /\ state_tree.edge_cache = first.state_tree.edge_cache
            /\ state_tree.neighbors = first.state_tree.neighbors
            /\ state_tree = first.state_tree
            /\ state = first.state /\ current_node = first.current_node
            /\ combats_run = first.combats_run /\ run_result = first.run_result
            /\ panicked = first.panicked

\* a run with a hit merged into its tree was repeated to the same step
C28_Witness ==
    /\ Repeated
    /\ Len(rerun.stream) >= 2
    /\ node_count(state_tree) >= 5
    /\ \E k \in DOMAIN state_tree.edge_cache :
          state_tree.edge_cache[k].transition.type = "HealthModification"

(***************************************************************************)
(* Properties of the serialization round trip                              *)
(***************************************************************************)
\* C29: a state tree restored from its serialized form behaves like the
\* original.  It has the same nodes, edges and hit counts, and add_node of a
\* probe state gives the same index and the same nodes on both; a state that
\* is present in the original gets its existing index on the restored tree.
\* The serialized form of the petgraph-backed tree has no state_cache.
C29_RestoredTreeIsEquivalent ==
    tree_call.op = "round_trip" =>
        LET Nodes(tr) == IF tree_call.kind = "statistics" THEN tr.graph.nodes ELSE tr.nodes
            Edges(tr) == IF tree_call.kind = "statistics" THEN tr.graph.edges ELSE tr.edge_cache
            o == tree_call.original_added
            r == tree_call.restored_added
        IN  /\ Nodes(tree_call.restored) = Nodes(tree_call.tree)
            /\ Edges(tree_call.restored) = Edges(tree_call.tree)
            /\ tree_call.restored.total_node_hits = tree_call.tree.total_node_hits
            /\ tree_call.restored.total_edge_hits = tree_call.tree.total_edge_hits
            /\ tree_call.kind = "statistics" => "state_cache" \notin DOMAIN tree_call.serialized
            /\ r.index = o.index
            /\ Nodes(r.tree) = Nodes(o.tree)
            /\ o.index < Len(Nodes(tree_call.tree)) => r.index = o.index

(***************************************************************************)
(* Properties of the damage of an attack                                   *)
(***************************************************************************)
\* C30: every HealthModification that evaluate_action emits for an attack that
\* hits has a strictly negative delta, also for a damage plan with a negative
\* modifier: at the point where the transition is about to be merged its delta
\* is below zero.
C30_HitsAlwaysDamage ==
    (driver \in {"run", "gui"} /\ pc = "health") =>
        /\ pending.type = "HealthModification"
        /\ pending.amount < 0

(***************************************************************************)
(* Properties of the petgraph-backed state tree                            *)
(***************************************************************************)
\* the state a structural hash stands for
StateOfHash(h) ==
    [turn |-> h[1], actors |-> h[2], items |-> h[3], initiative_order |-> h[4],
     current_turn_index |-> h[5]]

\* the nodes with a path from the root
RECURSIVE ReachableInGraph(_, _)
ReachableInGraph(tree, S) ==
    LET more == S \cup {tree.graph.edges[i].to :
                           i \in {j \in DOMAIN tree.graph.edges : tree.graph.edges[j].from \in S}}
    IN  IF more = S THEN S ELSE ReachableInGraph(tree, more)

\* C31: in a tree built by apply_logs, resolve_state(n) is the state whose
\* structural hash is n's state_hash; every edge (from, to, t) leads from the
\* state of `from` to the state of `to` by t; and resolve_state is None, not
\* the initial state, for a node without a path from the root.
C31_ResolveStateMatchesHash ==
    tree_call.op = "resolve" =>
        LET tree == tree_call.tree
            nodes == tree.graph.nodes
            reachable == ReachableInGraph(tree, {tree.root})
        IN  /\ \A n \in DOMAIN tree_call.resolved :
                  IF n \in reachable
                  THEN /\ IsSome(tree_call.resolved[n])
                       /\ hash_state(Unwrap(tree_call.resolved[n])) = nodes[n + 1].state_hash
                  ELSE tree_call.resolved[n] = None
            /\ \A i \in DOMAIN tree.graph.edges :
                  LET e == tree.graph.edges[i]
                      after == apply(e.transition, StateOfHash(nodes[e.from + 1].state_hash))
                  IN  /\ after.outcome = "Ok"
                      /\ hash_state(after.state) = nodes[e.to + 1].state_hash

(***************************************************************************)
(* Properties of the termination of a run                                  *)
(***************************************************************************)
\* C32: Integrator::run eventually returns: a combat started from an initial
\* state in which at least two allied groups have living members reaches
\* EndCombat, so the run proceeds to the full count of min_combats trials.
\* The loop of run_combat ends the combat once at most one allied group has a
\* living member, so initiative advances to a further turn only while two
\* groups still have living members.
C32_CombatsReachEndCombat ==
    (/\ driver = "run"
     /\ Cardinality(LivingGroups(initial_state)) >= 2
     /\ pc \in {"advance", "begin_turn"}
     /\ last_merged = AdvanceInitiative) =>
        Cardinality(LivingGroups(state)) >= 2

(***************************************************************************)
(* Properties of the transitions of a turn                                 *)
(***************************************************************************)
\* where the merged transitions of a trial stand: outside a turn, or in the
\* turn of an actor after BeginTurn ("begun"), after the ActionEconomyUsed of
\* a slot ("Action", "BonusAction"), after the HealthModification that
\* followed it ("Action hit", "BonusAction hit")
TurnPhase(phase, actor) == [phase |-> phase, actor |-> actor]

\* the phase after one more merged transition t, "bad" if t is out of order
TurnStep(p, t) ==
    CASE p.phase = "bad" -> p
      [] p.phase = "out" /\ t.type = "BeginTurn" -> TurnPhase("begun", t.actor)
      [] p.phase = "out" /\ t.type \in {"BeginCombat", "InitiativeRoll", "AdvanceInitiative",
                                        "EndCombat"} -> p
      [] p.phase = "begun" /\ t = ActionEconomyUsed(p.actor, "Action") ->
            TurnPhase("Action", p.actor)
      [] p.phase \in {"begun", "Action", "Action hit"}
            /\ t = ActionEconomyUsed(p.actor, "BonusAction") ->
            TurnPhase("BonusAction", p.actor)
      [] p.phase = "Action" /\ t.type = "HealthModification" ->
            TurnPhase("Action hit", p.actor)
      [] p.phase = "BonusAction" /\ t.type = "HealthModification" ->
            TurnPhase("BonusAction hit", p.actor)
      [] p.phase # "out" /\ t = EndTurn(p.actor) -> TurnPhase("out", 0)
      [] OTHER -> TurnPhase("bad", 0)

RECURSIVE TurnPhaseAfter(_)
TurnPhaseAfter(log) ==
    IF log = <<>> THEN TurnPhase("out", 0)
    ELSE TurnStep(TurnPhaseAfter(SubSeq(log, 1, Len(log) - 1)), log[Len(log)])

\* the flag of the slot on the actor
slot_used(actor, slot) ==
    IF slot = "Action" THEN actor.action_used ELSE actor.bonus_action_used

\* what C33 says of every state
TurnIsOrdered ==
    /\ driver \in {"run", "gui"} =>
          LET p == TurnPhaseAfter(trial_log)
          IN  /\ p.phase # "bad"
              /\ pc \in {"act", "health", "end_turn"} =>
                    /\ p.phase # "out" /\ p.actor = current_actor_id
              /\ pc = "health" => p.phase = action_type
              /\ (last_merged.type = "BeginTurn" /\ last_merged.actor \in ActorIds(state)) =>
                    /\ ~state.actors[last_merged.actor].action_used
                    /\ ~state.actors[last_merged.actor].bonus_action_used
    /\ (/\ apply_call.op = "apply" /\ apply_call.t.type = "BeginTurn"
        /\ apply_call.t.actor \in ActorIds(apply_call.before)) =>
          /\ apply_call.outcome = "Ok"
          /\ ~apply_call.after.actors[apply_call.t.actor].action_used
          /\ ~apply_call.after.actors[apply_call.t.actor].bonus_action_used
    /\ (apply_call.op = "apply" /\ apply_call.t.type = "ActionEconomyUsed") =>
          LET t == apply_call.t
              consumed == /\ t.actor \in ActorIds(apply_call.before)
                          /\ slot_used(apply_call.before.actors[t.actor], t.slot)
          IN  /\ (apply_call.outcome = "Err") <=> consumed
              /\ apply_call.outcome = "Err" => apply_call.after = apply_call.before
              /\ (apply_call.outcome = "Ok" /\ t.actor \in ActorIds(apply_call.before)) =>
                    slot_used(apply_call.after.actors[t.actor], t.slot)

\* a pass of the slot loop leaves run_combat early only after its
\* ActionEconomyUsed was merged
SlotNeverAlreadyUsed ==
    (/\ driver \in {"run", "gui"} /\ pc = "act"
     /\ pc' \in {"returned", "panicked"}) =>
        /\ trial_log' = Append(trial_log, ActionEconomyUsed(current_actor_id, action_type))
        /\ slot_used(state'.actors[current_actor_id], action_type)

\* C33: within a turn of actor a the merged transitions are BeginTurn{a}, then
\* for the slot Action and then for the slot BonusAction at most one
\* ActionEconomyUsed{a, slot} followed by at most one HealthModification, then
\* EndTurn{a}.  BeginTurn clears a's action-economy flags, and applying
\* ActionEconomyUsed never fails with "already used" in an Integrator run;
\* apply fails exactly when the slot is already consumed and then leaves the
\* state unchanged.
C33_TurnTransitionsAreOrdered ==
    /\ []TurnIsOrdered
    /\ [][SlotNeverAlreadyUsed]_vars

\* a turn that used both slots and hit with its action was run to its end
C33_Witness ==
    /\ driver = "run" /\ pc = "advance"
    /\ Len(trial_log) >= 5
    /\ LET n == Len(trial_log)
           a == current_actor_id
       IN  /\ trial_log[n] = EndTurn(a)
           /\ trial_log[n - 1] = ActionEconomyUsed(a, "BonusAction")
           /\ trial_log[n - 2].type = "HealthModification"
           /\ trial_log[n - 3] = ActionEconomyUsed(a, "Action")
           /\ trial_log[n - 4] = BeginTurn(a)
           /\ state.turn >= 1

(***************************************************************************)
(* Properties of StatModification                                          *)
(***************************************************************************)
\* C34: applying StatModification{target, stat, delta} changes the stat from
\* s to s + delta for every delta, negative ones included, whenever
\* 0 <= s + delta < 2^32, and the 32-bit addition s += (delta as u32) does
\* not overflow.
C34_StatModificationAddsDelta ==
    (/\ apply_call.op = "apply" /\ apply_call.t.type = "StatModification"
     /\ apply_call.t.actor \in ActorIds(apply_call.before)) =>
        LET t == apply_call.t
            s == apply_call.before.actors[t.actor][t.stat]
        IN  0 <= s + t.amount =>     \* the sums of these calls stay far below 2^32
                /\ apply_call.outcome = "Ok"
                /\ apply_call.after.actors[t.actor][t.stat] = s + t.amount
                /\ ~add_u32_overflows(s, t.amount)

\* C35: in the petgraph-backed StateTree add_node deduplicates every state,
\* not only the initial one: a node inserted by add_node is registered in the
\* state cache, so a later add_node of a structurally equal state returns the
\* same index, increments its hit counter and creates no second node.
C35_StatisticsAddNodeDeduplicates ==
    (tree_call.op = "round_trip" /\ tree_call.kind = "statistics") =>
        LET nodes == tree_call.tree.graph.nodes
            after == tree_call.original_added
            h == hash_state(tree_call.probe)
            holding == {i \in DOMAIN nodes : nodes[i].state_hash = h}
        IN  /\ Cardinality(holding) <= 1
            /\ \A i \in holding :
                  /\ after.index = i - 1
                  /\ Len(after.tree.graph.nodes) = Len(nodes)
                  /\ after.tree.graph.nodes[i].hits = saturating_add(nodes[i].hits, 1)

\* C36: when no trial has returned an error, the hit counters of the leaf
\* nodes (the nodes without outgoing edge) add up to the number of completed
\* trials, so a leaves-only outcome probability is the fraction of the trials
\* that ended in a state satisfying the predicate.
C36_LeafHitsCountTrials ==
    (TrialsCompleted /\ combats_run >= 1) =>
        SumOfHits(state_tree, Leaves(state_tree)) = combats_run

\* the sum of the hit counters of the edges with the keys K
RECURSIVE SumOfEdgeHits(_, _)
SumOfEdgeHits(tree, K) ==
    IF K = {} THEN 0
    ELSE LET k == CHOOSE x \in K : TRUE
         IN  tree.edge_cache[k].hits + SumOfEdgeHits(tree, K \ {k})

\* the keys (from, to) of the edges that end, and of those that start, at n
EdgesInto(tree, n) == {k \in DOMAIN tree.edge_cache : k[2] = n}
EdgesOutOf(tree, n) == {k \in DOMAIN tree.edge_cache : k[1] = n}

\* the trials that were started on the tree of an Integrator's first run, and
\* those of them that stopped at node n: the completed ones came in by an EndCombat edge, the running
\* one stands at current_node
TrialsStarted == combats_run + (IF pc \in CombatPositions THEN 1 ELSE 0)
TrialsStoppedAt(n) ==
    SumOfEdgeHits(state_tree, {k \in EdgesInto(state_tree, n) :
                                  state_tree.edge_cache[k].transition = EndCombat})
    + (IF pc \in CombatPositions \ {"record"} /\ current_node = n THEN 1 ELSE 0)

\* C37: hit-count flow is conserved after any number of trials merged through
\* CombatContext::transition.  A node's hit counter is the sum of the hit
\* counters of its incoming edges, plus 1 for the root; total_node_hits is
\* the sum of the node counters and total_edge_hits the sum of the edge
\* counters; and the hit counters of a node's outgoing edges add up to its
\* inflow (the incoming edge hits, plus the trials started for the root)
\* less the trials that stopped at the node.  Counters are compared up to
\* the value at which they saturate.
C37_HitFlowIsConserved ==
    (driver \in {"run", "gui", "api"} /\ pc # "new" /\ ~panicked) =>
        LET tree == state_tree
            In(n) == SumOfEdgeHits(tree, EdgesInto(tree, n))
            Out(n) == SumOfEdgeHits(tree, EdgesOutOf(tree, n))
            Unsaturated(K) == \A k \in K : tree.edge_cache[k].hits < HitsMax
        IN  /\ \A n \in NodeIndices(tree) :
                  tree.nodes[n + 1] = Min(In(n) + (IF n = tree.root THEN 1 ELSE 0), HitsMax)
            /\ tree.total_node_hits = Min(SumOfHits(tree, NodeIndices(tree)), HitsMax)
            /\ tree.total_edge_hits = Min(SumOfEdgeHits(tree, DOMAIN tree.edge_cache), HitsMax)
            /\ (/\ driver \in {"run", "gui"} /\ trial_errors = 0 /\ ~divergence
                /\ rerun.phase # "again") =>
                  \A n \in NodeIndices(tree) :
                      Unsaturated(EdgesInto(tree, n) \cup EdgesOutOf(tree, n)) =>
                          Out(n) = In(n) + (IF n = tree.root THEN TrialsStarted ELSE 0)
                                     - TrialsStoppedAt(n)

\* a second trial stands after its BeginCombat on a tree whose first trial was
\* completed: the BeginCombat edge has two hits and no counter is saturated
C37_Witness ==
    /\ driver = "run" /\ ~panicked /\ trial_errors = 0 /\ ~divergence
    /\ combats_run = 1 /\ pc = "initiative"
    /\ current_node # state_tree.root
    /\ EdgeKey(state_tree.root, current_node) \in DOMAIN state_tree.edge_cache
    /\ state_tree.edge_cache[EdgeKey(state_tree.root, current_node)].hits = 2
    /\ \A k \in DOMAIN state_tree.edge_cache : state_tree.edge_cache[k].hits < HitsMax
    /\ \E k \in DOMAIN state_tree.edge_cache : state_tree.edge_cache[k].transition = EndCombat

(***************************************************************************)
(* Properties of the turn order                                            *)
(***************************************************************************)
\* the number of AdvanceInitiative transitions the running trial has merged
Advances(log) == Cardinality({i \in DOMAIN log : log[i] = AdvanceInitiative})

\* C38: in every combat with at least two actors the first turn (the first
\* BeginTurn, or the first skipped turn) belongs to the first actor of
\* initiative_order, the actor with the highest initiative roll, and the turn
\* counter is incremented each time the order wraps back to that actor after
\* a full round: the k-th turn of a combat of n actors belongs to position
\* (k - 1) mod n of the order, in round (k - 1) div n.
C38_HighestInitiativeGoesFirst ==
    (/\ driver \in {"run", "gui"} /\ ~panicked
     /\ pc \in {"advance", "begin_turn"}
     /\ last_merged = AdvanceInitiative
     /\ Len(state.initiative_order) >= 2) =>
        LET k == Advances(trial_log)
            n == Len(state.initiative_order)
        IN  /\ state.current_turn_index = Some((k - 1) % n)
            /\ current_actor_id = state.initiative_order[((k - 1) % n) + 1]
            /\ state.turn = initial_state.turn + ((k - 1) \div n)

(***************************************************************************)
(* Properties of repeated calls of Integrator::run                         *)
(***************************************************************************)
\* the completed combats merged into the tree: the hits of its EndCombat edges
CombatsMerged(tree) ==
    SumOfEdgeHits(tree, {k \in DOMAIN tree.edge_cache : tree.edge_cache[k].transition = EndCombat})

\* C39: every call of Integrator::run that returns Ok returns a state tree
\* into which at least min_combats completed combats were merged during that
\* call, also when run is called a second time on the same Integrator: the
\* counter of completed combats is not carried over from the previous call.
C39_EveryRunMergesMinCombats ==
    (driver = "run" /\ pc = "done" /\ run_result = "Ok") =>
        CombatsMerged(state_tree) >= Min(min_combats, HitsMax)

(***************************************************************************)
(* Properties of the terminal states                                       *)
(***************************************************************************)
\* the initial state with the turn and initiative bookkeeping at its
\* pre-combat baseline and the actors' health taken from the state st
PreCombatBaseline(initial, st) ==
    [initial EXCEPT !.current_turn_index = None,
                    !.turn = 0,
                    !.initiative_order = <<>>,
                    !.actors = [a \in DOMAIN @ |->
                                   [@[a] EXCEPT !.initiative = None,
                                                !.health = IF a \in ActorIds(st)
                                                           THEN st.actors[a].health ELSE @]]]

\* C40: terminal states of independent trials are directly comparable: two
\* completed trials from the same initial state that end with the same health
\* for every actor end at the same leaf node; after EndCombat the state
\* differs from the initial state only in actor health, and no per-turn
\* bookkeeping such as an action-economy flag survives into it.
C40_TerminalStatesAreComparable ==
    /\ (driver \in {"run", "gui", "api"} /\ ~panicked /\ last_merged = EndCombat) =>
          /\ state = PreCombatBaseline(initial_state, state)
          /\ hash_state(recorded[current_node]) = hash_state(PreCombatBaseline(initial_state, state))
    /\ (apply_call.op = "apply" /\ apply_call.t = EndCombat) =>
          \A a \in ActorIds(apply_call.after) :
              /\ ~apply_call.after.actors[a].action_used
              /\ ~apply_call.after.actors[a].bonus_action_used

====
